---- MODULE Spec2Model ----
(***************************************************************************)
(* A model of the elo bytecode compiler (compiler.go): the single-pass AST *)
(* walker that resolves names through the block chain, folds constants,    *)
(* plans registers and emits register bytecode with back-patched jumps.    *)
(*                                                                         *)
(* The compiler state is the record c: the prototypes (code, line table,   *)
(* constant pool, nested prototypes), the stack of compiler blocks (the    *)
(* parent chain of c.block), lastLine and the outcome of Compile.  Every   *)
(* visitor is an operator from a compiler state to a compiler state; the   *)
(* regb a visitor leaves in the caller's exprdata is the field rb.         *)
(* Code indices, registers and labels are the Go (0-based) values.         *)
(***************************************************************************)
EXTENDS Integers, Sequences, FiniteSets, TLC

VARIABLES c, prog, pos, pre

vars == <<c, prog, pos, pre>>

(* ------------------------------ bounds -------------------------------- *)

\* top-level statements of the compiled program
MaxStmts == 2

\* operations the scope machine performs
MaxOps == 5

(* ------------------------ program constants --------------------------- *)

kArrayMaxRegisters == 10

\* bias of a constant-pool index carried in operand B or C: a fixed positive
\* number above every register index (its value is not in the sources)
OpConstOffset == 256

\* capacity of a prototype's constant pool (its value is not in the sources;
\* the programs compiled here stay below it)
funcMaxConsts == 256

kScopeLocal == "Local"
kScopeRef == "Ref"
kScopeGlobal == "Global"

kBlockContextFunc == "Function"
kBlockContextLoop == "Loop"
kBlockContextBranch == "Branch"

(* ------------------------------ values -------------------------------- *)

Number(n) == [t |-> "number", v |-> n]
Bool(b) == [t |-> "bool", v |-> b]
String(s) == [t |-> "string", v |-> s]
NilValue == [t |-> "nil", v |-> 0]

\* the float64 that is not a number
NaN == [t |-> "number", v |-> 0, nan |-> TRUE]
IsNaN(x) == "nan" \in DOMAIN x

\* c.Type() == valueType && c == value: Go's == on float64 is false when an
\* operand is NaN
ValueEq(x, y) == x.t = y.t /\ x.v = y.v /\ ~IsNaN(x) /\ ~IsNaN(y)

(* -------------------------------- AST --------------------------------- *)

\* a nil ast.Node
NilNode == [kind |-> "nil", line |-> 0]

NilLit(l) == [kind |-> "Nil", line |-> l]
BoolLit(l, b) == [kind |-> "Bool", line |-> l, bval |-> b]
NumberLit(l, n) == [kind |-> "Number", line |-> l, num |-> n]
StringLit(l, s) == [kind |-> "String", line |-> l, str |-> s]
Id(l, name) == [kind |-> "Id", line |-> l, name |-> name]
Array(l, els) == [kind |-> "Array", line |-> l, elements |-> els]
ObjectField(l, key, value) == [kind |-> "ObjectField", line |-> l, key |-> key, value |-> value]
Object(l, fields) == [kind |-> "Object", line |-> l, fields |-> fields]
Function(l, name, args, body) ==
  [kind |-> "Function", line |-> l, fname |-> name, args |-> args, body |-> body]
Selector(l, left, key) == [kind |-> "Selector", line |-> l, left |-> left, key |-> key]
Subscript(l, left, right) == [kind |-> "Subscript", line |-> l, left |-> left, right |-> right]
Slice(l, start, end) == [kind |-> "Slice", line |-> l, start |-> start, end |-> end]
KwArg(l, key, value) == [kind |-> "KwArg", line |-> l, key |-> key, value |-> value]
VarArg(l, arg) == [kind |-> "VarArg", line |-> l, arg |-> arg]
CallExpr(l, left, args) == [kind |-> "CallExpr", line |-> l, left |-> left, args |-> args]
PostfixExpr(l, op, left) == [kind |-> "PostfixExpr", line |-> l, op |-> op, left |-> left]
UnaryExpr(l, op, right) == [kind |-> "UnaryExpr", line |-> l, op |-> op, right |-> right]
BinaryExpr(l, op, left, right) ==
  [kind |-> "BinaryExpr", line |-> l, op |-> op, left |-> left, right |-> right]
TernaryExpr(l, cond, then, else) ==
  [kind |-> "TernaryExpr", line |-> l, cond |-> cond, then |-> then, else |-> else]
Declaration(l, isConst, lhs, rhs) ==
  [kind |-> "Declaration", line |-> l, isConst |-> isConst, lhs |-> lhs, rhs |-> rhs]
Assignment(l, op, lhs, rhs) ==
  [kind |-> "Assignment", line |-> l, op |-> op, lhs |-> lhs, rhs |-> rhs]
BranchStmt(l, type) == [kind |-> "BranchStmt", line |-> l, type |-> type]
ReturnStmt(l, values) == [kind |-> "ReturnStmt", line |-> l, values |-> values]
IfStmt(l, init, cond, body, else) ==
  [kind |-> "IfStmt", line |-> l, init |-> init, cond |-> cond, body |-> body, else |-> else]
ForStmt(l, init, cond, step, body) ==
  [kind |-> "ForStmt", line |-> l, init |-> init, cond |-> cond, step |-> step, body |-> body]
ForIteratorStmt(l) == [kind |-> "ForIteratorStmt", line |-> l]
Block(l, nodes) == [kind |-> "Block", line |-> l, nodes |-> nodes]

\* ast.IsStmt: a node that is a statement, not an expression used as one
IsStmt(n) ==
  n.kind \in {"Declaration", "Assignment", "BranchStmt", "ReturnStmt", "IfStmt",
              "ForStmt", "ForIteratorStmt", "Block"}

\* ast.IsPostfixOp
IsPostfixOp(op) == op \in {"T_PLUSPLUS", "T_MINUSMINUS"}

(* --------------------------- instructions ----------------------------- *)

\* One instruction word: the opcode and the operands A, B (or Bx, sBx) and C.
\* The other fields are bookkeeping of the model, not part of the word: line
\* is the line the instruction was emitted for; ph tells a jump emitted as a
\* placeholder ("pending") from one overwritten by modifyInstruction
\* ("patched"), and at is NumCode at the time of that overwrite.
Instr(op, a, b, cc) ==
  [op |-> op, a |-> a, b |-> b, c |-> cc, line |-> 0, ph |-> "none", at |-> 0]

OpNewAB(op, a, b) == Instr(op, a, b, 0)
OpNewABC(op, a, b, cc) == Instr(op, a, b, cc)
OpNewABx(op, a, b) == Instr(op, a, b, 0)
OpNewAsBx(op, a, b) == Instr(op, a, b, 0)
OpGetOpcode(i) == i.op

JumpOps == {"OP_JMP", "OP_JMPFALSE", "OP_JMPTRUE"}

(* ------------------------ prototypes and blocks ----------------------- *)

newFuncProto == [Code |-> <<>>, Lines |-> <<>>, Consts |-> <<>>, Funcs |-> <<>>]

EmptyNames == [n \in {} |-> 0]

newCompilerBlock(proto, context) ==
  [context |-> context, start |-> 0, register |-> 0, pendingBreaks |-> <<>>,
   names |-> EmptyNames, proto |-> proto]

nameinfo(isConst, value, reg, scope) ==
  [isConst |-> isConst, value |-> value, reg |-> reg, scope |-> scope]

\* c.block, its prototype, and that prototype's NumCode
CurBlock(cs) == cs.blocks[Len(cs.blocks)]
CurProto(cs) == cs.protos[CurBlock(cs).proto]
NumCode(cs) == Len(CurProto(cs).Code)

\* the compiler value Compile starts from: mainFunc and its Function block
NewCompiler ==
  [status |-> "run", err |-> "", lastLine |-> 0, rb |-> 0,
   protos |-> <<newFuncProto>>,
   blocks |-> <<newCompilerBlock(1, kBlockContextFunc)>>,
   left |-> <<>>, leftPending |-> FALSE]

\* c.error: panic(&CompileError{...}), recovered by Compile
error(cs, msg) == IF cs.status # "run" THEN cs ELSE [cs EXCEPT !.status = "error", !.err = msg]

\* a Go runtime panic (nil dereference, index out of range): not a *CompileError
RuntimePanic(cs) == IF cs.status # "run" THEN cs ELSE [cs EXCEPT !.status = "panic"]

(* ------------------------- helper functions --------------------------- *)

\* emitInstruction recording NumCode instead of NumCode - 1 in the line table
emitInstruction_lineAtNumCode(cs, instr, line) ==
  IF cs.status # "run" THEN cs ELSE
  LET p == CurBlock(cs).proto
      f == cs.protos[p]
      n == Len(f.Code) + 1
      rec == line # cs.lastLine \/ Len(f.Lines) = 0
  IN [cs EXCEPT !.protos[p].Code = Append(@, [instr EXCEPT !.line = line]),
                !.protos[p].Lines =
                   IF rec THEN Append(@, [codeIndex |-> n, line |-> line]) ELSE @,
                !.lastLine = IF rec THEN line ELSE @]

\* f.Code = append(f.Code, instr); a line-table entry when the line changes
emitInstruction(cs, instr, line) ==
  IF cs.status # "run" THEN cs ELSE
  LET p == CurBlock(cs).proto
      f == cs.protos[p]
      n == Len(f.Code) + 1
      rec == line # cs.lastLine \/ Len(f.Lines) = 0
  IN [cs EXCEPT !.protos[p].Code = Append(@, [instr EXCEPT !.line = line]),
                !.protos[p].Lines =
                   IF rec THEN Append(@, [codeIndex |-> n - 1, line |-> line]) ELSE @,
                !.lastLine = IF rec THEN line ELSE @]

\* f.Code[index] = instr when index < NumCode
modifyInstruction(cs, index, instr) ==
  IF cs.status # "run" THEN cs ELSE
  LET p == CurBlock(cs).proto
      old == cs.protos[p].Code[index + 1]
  IN IF index >= 0 /\ index < Len(cs.protos[p].Code)
     THEN [cs EXCEPT !.protos[p].Code[index + 1] =
                       [instr EXCEPT !.line = old.line, !.ph = "patched",
                                     !.at = Len(cs.protos[p].Code)]]
     ELSE cs

emitAB(cs, op, a, b, line) == emitInstruction(cs, OpNewAB(op, a, b), line)
emitABC(cs, op, a, b, cc, line) == emitInstruction(cs, OpNewABC(op, a, b, cc), line)
emitABx(cs, op, a, b, line) == emitInstruction(cs, OpNewABx(op, a, b), line)
emitAsBx(cs, op, a, b, line) == emitInstruction(cs, OpNewAsBx(op, a, b), line)

\* emitAsBx(op, a, 0, line) at the places that patch the offset later
emitPlaceholder(cs, op, a, line) ==
  emitInstruction(cs, [OpNewAsBx(op, a, 0) EXCEPT !.ph = "pending"], line)

modifyAsBx(cs, index, op, a, b) == modifyInstruction(cs, index, OpNewAsBx(op, a, b))

\* newLabel naming the instruction after the next one
newLabel_next(cs) == NumCode(cs) + 1

newLabel(cs) == NumCode(cs)

\* labelOffset counting the label's instruction twice
labelOffset_plusOne(cs, label) == NumCode(cs) - label + 1

labelOffset(cs, label) == NumCode(cs) - label

\* genRegister returns Register(cs) and leaves the state genRegister(cs)
Register(cs) == CurBlock(cs).register
genRegister(cs) ==
  IF cs.status # "run" THEN cs
  ELSE [cs EXCEPT !.blocks[Len(cs.blocks)].register = @ + 1]
decRegister(cs) ==
  IF cs.status # "run" THEN cs
  ELSE [cs EXCEPT !.blocks[Len(cs.blocks)].register = @ - 1]

enterBlock(cs, context) ==
  IF cs.status # "run" THEN cs ELSE
  LET block == [newCompilerBlock(CurBlock(cs).proto, context) EXCEPT
                  !.start = NumCode(cs), !.register = CurBlock(cs).register]
  IN [cs EXCEPT !.blocks = Append(@, block)]

\* the jumps of prototype p at code index >= from that are still placeholders
PendingFrom(cs, p, from) ==
  {i \in from .. Len(cs.protos[p].Code) - 1 : cs.protos[p].Code[i + 1].ph = "pending"}

RECURSIVE patchBreaks(_, _, _, _)
patchBreaks(cs, breaks, end, i) ==
  IF i > Len(breaks) THEN cs
  ELSE patchBreaks(modifyAsBx(cs, breaks[i], "OP_JMP", 0, end - breaks[i]), breaks, end, i + 1)

\* leaveBlock with NumCode - 1 taken one too far
leaveBlock_endAtNumCode(cs) ==
  LET block == CurBlock(cs)
      end == NumCode(cs)
      c0 == [cs EXCEPT !.status = "run"]
      c1 == IF block.context = kBlockContextLoop
            THEN patchBreaks(c0, block.pendingBreaks, end, 1) ELSE c0
  IN [c1 EXCEPT !.status = cs.status,
                !.blocks = SubSeq(@, 1, Len(@) - 1),
                !.left = Append(@, [block |-> block, numCode |-> NumCode(cs)]),
                !.leftPending = @ \/ PendingFrom(c1, block.proto, block.start) # {}]

\* Its callers defer leaveBlock, so it runs whenever its enterBlock has run,
\* also while a panic unwinds: the status is the one it was called with.
leaveBlock(cs) ==
  LET block == CurBlock(cs)
      end == NumCode(cs) - 1
      c0 == [cs EXCEPT !.status = "run"]
      c1 == IF block.context = kBlockContextLoop
            THEN patchBreaks(c0, block.pendingBreaks, end, 1) ELSE c0
  IN [c1 EXCEPT !.status = cs.status,
                !.blocks = SubSeq(@, 1, Len(@) - 1),
                !.left = Append(@, [block |-> block, numCode |-> NumCode(cs)]),
                !.leftPending = @ \/ PendingFrom(c1, block.proto, block.start) # {}]

\* the index addConst returns: that of an equal constant, else the new last one
constIndexFrom(consts, value, i) ==
  LET equal == {j \in i .. Len(consts) : ValueEq(consts[j], value)}
  IN IF equal = {} THEN Len(consts)
     ELSE (CHOOSE j \in equal : \A k \in equal : j <= k) - 1

constIndex(cs, value) == constIndexFrom(CurProto(cs).Consts, value, 1)

\* a variant of addConst that grows the pool whatever its length
addConst_noCapacity(cs, value) ==
  IF cs.status # "run" THEN cs ELSE
  LET p == CurBlock(cs).proto
      consts == cs.protos[p].Consts
  IN IF constIndexFrom(consts, value, 1) < Len(consts) THEN cs
     ELSE [cs EXCEPT !.protos[p].Consts = Append(@, value)]

addConst(cs, value) ==
  IF cs.status # "run" THEN cs ELSE
  LET p == CurBlock(cs).proto
      consts == cs.protos[p].Consts
  IN IF constIndexFrom(consts, value, 1) < Len(consts) THEN cs
     ELSE IF Len(consts) > funcMaxConsts - 1 THEN error(cs, "too many constants")
     ELSE [cs EXCEPT !.protos[p].Consts = Append(@, value)]

(* ----------------------------- name lookup ---------------------------- *)

\* the walk of nameInfo over the parent chain from block i: whether the name
\* is found, in which block, and how many Function blocks were crossed
RECURSIVE nameInfoWalk(_, _, _, _)
nameInfoWalk(blocks, name, i, closures) ==
  IF i = 0 THEN [ok |-> FALSE, bi |-> 0, closures |-> closures]
  ELSE IF name \in DOMAIN blocks[i].names
       THEN [ok |-> TRUE, bi |-> i, closures |-> closures]
  ELSE nameInfoWalk(blocks, name, i - 1,
                    IF blocks[i].context = kBlockContextFunc THEN closures + 1 ELSE closures)

\* nameInfo upgrading a Local wherever it is found
nameInfoBlocks_noClosureTest(blocks, name) ==
  LET r == nameInfoWalk(blocks, name, Len(blocks), 0)
  IN IF r.ok /\ blocks[r.bi].names[name].scope = kScopeLocal
     THEN [blocks EXCEPT ![r.bi].names[name].scope = kScopeRef]
     ELSE blocks

\* the blocks after nameInfo: a Local found across a Function block becomes Ref
nameInfoBlocks(blocks, name) ==
  LET r == nameInfoWalk(blocks, name, Len(blocks), 0)
  IN IF r.ok /\ r.closures > 0 /\ blocks[r.bi].names[name].scope = kScopeLocal
     THEN [blocks EXCEPT ![r.bi].names[name].scope = kScopeRef]
     ELSE blocks

\* c.block.nameInfo(name): the state after the call, and what it returns
nameInfo(cs, name) ==
  IF cs.status # "run" THEN cs ELSE [cs EXCEPT !.blocks = nameInfoBlocks(@, name)]
nameInfoOk(cs, name) == nameInfoWalk(cs.blocks, name, Len(cs.blocks), 0).ok
nameInfoOf(cs, name) ==
  nameInfoBlocks(cs.blocks, name)[nameInfoWalk(cs.blocks, name, Len(cs.blocks), 0).bi].names[name]

\* b.names[name] = info in the current block
addNameInfo(cs, name, info) ==
  IF cs.status # "run" THEN cs
  ELSE [cs EXCEPT !.blocks[Len(cs.blocks)].names =
          [n \in DOMAIN @ \cup {name} |-> IF n = name THEN info ELSE @[n]]]

(* --------------------------- constant folding ------------------------- *)

Fold(cs, ok, val) == [cs |-> cs, ok |-> ok, val |-> val]
NoFold(cs) == Fold(cs, FALSE, NilValue)

RECURSIVE Pow(_, _)
Pow(x, n) == IF n = 0 THEN 1 ELSE x * Pow(x, n - 1)

\* a variant of foldBinary that folds only T_TIMES, and as a sum
foldBinary_timesAsPlus(cs, op, l, r) ==
  IF l.t = "number" /\ r.t = "number" /\ op = "T_TIMES"
  THEN Fold(cs, TRUE, Number(l.v + r.v)) ELSE NoFold(cs)

\* the BinaryExpr case of constFold once both operands have folded.  Numbers
\* are the integers among the float64 values: T_DIV is given for an integral
\* quotient and T_TIMESTIMES for a natural exponent.
foldBinary(cs, op, l, r) ==
  IF l.t # r.t THEN NoFold(cs)
  ELSE IF l.t = "number" /\ (IsNaN(l) \/ IsNaN(r)) THEN
    CASE op \in {"T_PLUS", "T_MINUS", "T_TIMES", "T_DIV"} -> Fold(cs, TRUE, NaN)
      [] op \in {"T_LT", "T_LTEQ", "T_GT", "T_GTEQ", "T_EQEQ"} -> Fold(cs, TRUE, Bool(FALSE))
      [] OTHER -> NoFold(cs)
  ELSE IF l.t = "number" THEN
    CASE op = "T_PLUS" -> Fold(cs, TRUE, Number(l.v + r.v))
      [] op = "T_MINUS" -> Fold(cs, TRUE, Number(l.v - r.v))
      [] op = "T_TIMES" -> Fold(cs, TRUE, Number(l.v * r.v))
      [] op = "T_DIV" /\ r.v # 0 /\ l.v % r.v = 0 -> Fold(cs, TRUE, Number(l.v \div r.v))
      [] op = "T_DIV" /\ r.v = 0 /\ l.v = 0 -> Fold(cs, TRUE, NaN)
      [] op = "T_TIMESTIMES" /\ r.v >= 0 -> Fold(cs, TRUE, Number(Pow(l.v, r.v)))
      [] op = "T_LT" -> Fold(cs, TRUE, Bool(l.v < r.v))
      [] op = "T_LTEQ" -> Fold(cs, TRUE, Bool(l.v <= r.v))
      [] op = "T_GT" -> Fold(cs, TRUE, Bool(l.v > r.v))
      [] op = "T_GTEQ" -> Fold(cs, TRUE, Bool(l.v >= r.v))
      [] op = "T_EQEQ" -> Fold(cs, TRUE, Bool(l.v = r.v))
      [] op \notin {"T_PLUS", "T_MINUS", "T_TIMES", "T_DIV", "T_TIMESTIMES", "T_LT",
                    "T_LTEQ", "T_GT", "T_GTEQ", "T_EQEQ"} -> NoFold(cs)
  ELSE IF l.t = "bool" THEN
    CASE op = "T_AMPAMP" -> Fold(cs, TRUE, Bool(l.v /\ r.v))
      [] op = "T_PIPEPIPE" -> Fold(cs, TRUE, Bool(l.v \/ r.v))
      [] OTHER -> NoFold(cs)
  ELSE IF l.t = "string" THEN
    CASE op = "T_PLUS" -> Fold(cs, TRUE, String(l.v \o r.v))
      [] op = "T_EQEQ" -> Fold(cs, TRUE, Bool(l.v = r.v))
      [] op = "T_BANGEQ" -> Fold(cs, TRUE, Bool(l.v # r.v))
      [] OTHER -> NoFold(cs)
  ELSE NoFold(cs)

\* constFold(node): the value and whether it folded; cs is the state after
\* the name lookups the folding made
RECURSIVE constFold(_, _)
constFold(cs, node) ==
  CASE node.kind = "Number" -> Fold(cs, TRUE, Number(node.num))
    [] node.kind = "Bool" -> Fold(cs, TRUE, Bool(node.bval))
    [] node.kind = "String" -> Fold(cs, TRUE, String(node.str))
    [] node.kind = "Id" ->
         IF nameInfoOk(cs, node.name) /\ nameInfoOf(cs, node.name).isConst
         THEN Fold(nameInfo(cs, node.name), TRUE, nameInfoOf(cs, node.name).value)
         ELSE NoFold(nameInfo(cs, node.name))
    [] node.kind = "UnaryExpr" ->
         LET r == constFold(cs, node.right)
         IN IF node.op = "T_MINUS"
            THEN IF r.ok /\ r.val.t = "number"
                 THEN Fold(r.cs, TRUE, IF IsNaN(r.val) THEN NaN ELSE Number(0 - r.val.v))
                 ELSE NoFold(r.cs)
            ELSE IF r.ok /\ r.val.t = "bool"
                 THEN Fold(r.cs, TRUE, Bool(~r.val.v)) ELSE NoFold(r.cs)
    [] node.kind = "BinaryExpr" ->
         LET l == constFold(cs, node.left)
             r == constFold(l.cs, node.right)
         IN IF l.ok /\ r.ok THEN foldBinary(r.cs, node.op, l.val, r.val) ELSE NoFold(r.cs)
    [] OTHER -> NoFold(cs)

(* ------------------------------ visitors ------------------------------ *)

\* the *exprdata a visit receives; NoData is a nil data
ED(p, a, b) == [ok |-> TRUE, propagate |-> p, rega |-> a, regb |-> b]
NoData == [ok |-> FALSE, propagate |-> FALSE, rega |-> 0, regb |-> 0]

\* the state a visitor returns, with the regb its caller reads afterwards
Ret(cs, regb) == [cs EXCEPT !.rb = regb]

\* reg = expr.rega, or c.genRegister() when there is no exprdata
DestReg(cs, d) == IF d.ok THEN d.rega ELSE Register(cs)
DestState(cs, d) == IF d.ok THEN cs ELSE genRegister(cs)
PropReg(d, reg) == IF d.ok /\ d.propagate THEN reg ELSE d.regb

RECURSIVE Visit(_, _, _)
RECURSIVE declare(_, _, _)
RECURSIVE assignmentHelper(_, _, _, _)
RECURSIVE branchConditionHelper(_, _, _, _, _)

functionReturnGuard(cs) ==
  IF cs.status # "run" THEN cs
  ELSE IF NumCode(cs) = 0 THEN RuntimePanic(cs)
  ELSE IF OpGetOpcode(CurProto(cs).Code[NumCode(cs)]) # "OP_RETURN"
       THEN emitAB(cs, "OP_RETURN", 0, 0, cs.lastLine)
  ELSE cs

VisitNil(cs, node, d) ==
  LET rega == DestReg(cs, d)
      regb == IF d.ok /\ d.regb > d.rega THEN d.regb ELSE rega
  IN Ret(emitAB(DestState(cs, d), "OP_LOADNIL", rega, regb, node.line), d.regb)

\* VisitBool, VisitNumber and VisitString, which differ in the value only
visitLiteral(cs, value, line, d) ==
  IF d.ok /\ d.propagate
  THEN Ret(addConst(cs, value), OpConstOffset + constIndex(cs, value))
  ELSE LET reg == DestReg(cs, d)
           c1 == addConst(DestState(cs, d), value)
       IN Ret(emitABx(c1, "OP_LOADCONST", reg, constIndex(cs, value), line), d.regb)

VisitBool(cs, node, d) == visitLiteral(cs, Bool(node.bval), node.line, d)
VisitNumber(cs, node, d) == visitLiteral(cs, Number(node.num), node.line, d)
VisitString(cs, node, d) == visitLiteral(cs, String(node.str), node.line, d)

VisitId(cs, node, d) ==
  LET reg == DestReg(cs, d)
      c0 == DestState(cs, d)
      ok == nameInfoOk(c0, node.name)
      info == nameInfoOf(c0, node.name)
      c1 == nameInfo(c0, node.name)
  IN IF ok /\ info.isConst
     THEN IF d.ok /\ d.propagate
          THEN Ret(addConst(c1, info.value), OpConstOffset + constIndex(c1, info.value))
          ELSE Ret(emitABx(addConst(c1, info.value), "OP_LOADCONST", reg,
                           constIndex(c1, info.value), node.line), d.regb)
     ELSE LET scope == IF ok THEN info.scope ELSE kScopeGlobal
          IN IF scope = kScopeLocal
             THEN IF d.ok /\ d.propagate THEN Ret(c1, info.reg)
                  ELSE Ret(emitAB(c1, "OP_MOVE", reg, info.reg, node.line), d.regb)
             ELSE LET op == IF scope = kScopeRef THEN "OP_LOADREF" ELSE "OP_LOADGLOBAL"
                      c2 == addConst(c1, String(node.name))
                  IN Ret(emitABx(c2, op, reg, constIndex(c1, String(node.name)), node.line),
                         PropReg(d, reg))

RECURSIVE arrayElements(_, _, _, _, _, _)
arrayElements(cs, node, reg, start, end, i) ==
  IF i >= end THEN cs
  ELSE arrayElements(Visit(cs, node.elements[start + i + 1], ED(FALSE, reg + i + 1, reg + i + 1)),
                     node, reg, start, end, i + 1)

\* a variant of arrayTimes without the batch of the remainder
arrayTimes_noRemainder(length) == length \div kArrayMaxRegisters

\* times := length / kArrayMaxRegisters + 1
arrayTimes(length) == (length \div kArrayMaxRegisters) + 1

RECURSIVE arrayBatches(_, _, _, _)
arrayBatches(cs, node, reg, t) ==
  LET length == Len(node.elements)
      times == arrayTimes(length)
      start == t * kArrayMaxRegisters
      end == IF kArrayMaxRegisters < length - start THEN kArrayMaxRegisters ELSE length - start
  IN IF t >= times \/ end = 0 THEN cs
     ELSE arrayBatches(emitAB(arrayElements(cs, node, reg, start, end, 0),
                              "OP_APPEND", reg, end, node.line),
                       node, reg, t + 1)

VisitArray(cs, node, d) ==
  LET reg == DestReg(cs, d)
      c1 == emitAB(DestState(cs, d), "OP_ARRAY", reg, 0, node.line)
  IN Ret(arrayBatches(c1, node, reg, 0), PropReg(d, reg))

VisitObjectField(cs, node, d) ==
  LET objreg == d.rega
      c1 == addConst(cs, String(node.key))
      key == OpConstOffset + constIndex(cs, String(node.key))
      c2 == Visit(c1, node.value, ED(TRUE, objreg + 1, objreg + 1))
  IN Ret(emitABC(c2, "OP_SET", objreg, key, c2.rb, node.line), d.regb)

RECURSIVE objectFields(_, _, _, _)
objectFields(cs, node, reg, i) ==
  IF i > Len(node.fields) THEN cs
  ELSE objectFields(Visit(cs, node.fields[i], ED(FALSE, reg, reg)), node, reg, i + 1)

VisitObject(cs, node, d) ==
  LET reg == DestReg(cs, d)
      c1 == emitAB(DestState(cs, d), "OP_OBJECT", reg, 0, node.line)
  IN Ret(objectFields(c1, node, reg, 1), PropReg(d, reg))

\* the arguments of a function enter its scope: an Id takes the next register
RECURSIVE functionArgs(_, _, _)
functionArgs(cs, args, i) ==
  IF i > Len(args) THEN cs
  ELSE IF args[i].kind = "Id"
       THEN functionArgs(addNameInfo(genRegister(cs), args[i].name,
                                     nameinfo(FALSE, NilValue, Register(cs), kScopeLocal)),
                         args, i + 1)
  ELSE functionArgs(cs, args, i + 1)

\* the new prototype of a function literal, appended to the parent's Funcs,
\* and its Function block, which becomes c.block
enterFunction(cs) ==
  IF cs.status # "run" THEN cs ELSE
  LET parent == CurBlock(cs).proto
      proto == Len(cs.protos) + 1
  IN [cs EXCEPT !.protos = [Append(@, newFuncProto) EXCEPT ![parent].Funcs = Append(@, proto)],
                !.blocks = Append(@, newCompilerBlock(proto, kBlockContextFunc))]

\* c.block = c.block.parent at the end of VisitFunction
leaveFunction(cs) ==
  IF cs.status # "run" THEN cs ELSE [cs EXCEPT !.blocks = SubSeq(@, 1, Len(@) - 1)]

VisitFunction(cs, node, d) ==
  LET reg == DestReg(cs, d)
      c0 == DestState(cs, d)
      index == Len(CurProto(c0).Funcs)
      c3 == functionArgs(enterFunction(c0), node.args, 1)
      c4 == functionReturnGuard(Visit(c3, node.body, NoData))
      c5 == leaveFunction(c4)
      c6 == emitABx(c5, "OP_FUNC", reg, index, node.line)
      c7 == IF node.fname.kind # "nil" THEN assignmentHelper(c6, node.fname, reg + 1, reg) ELSE c6
  IN Ret(c7, PropReg(d, reg))

VisitSelector(cs, node, d) ==
  LET reg == DestReg(cs, d)
      c1 == Visit(DestState(cs, d), node.left, ED(TRUE, reg + 1, reg + 1))
      objReg == c1.rb
      key == OpConstOffset + constIndex(c1, String(node.key))
      c2 == addConst(c1, String(node.key))
  IN Ret(emitABC(c2, "OP_GET", reg, objReg, key, node.line), PropReg(d, reg))

VisitSubscript(cs, node, d) ==
  LET reg == DestReg(cs, d)
      c1 == Visit(DestState(cs, d), node.left, ED(TRUE, reg + 1, reg + 1))
      arrReg == c1.rb
      c2 == Visit(c1, node.right, ED(TRUE, reg + 1, reg + 1))
      indexReg == c2.rb
  IN IF node.right.kind = "Slice" THEN Ret(c1, d.regb)
     ELSE Ret(emitABC(c2, "OP_GET", reg, arrReg, indexReg, node.line), PropReg(d, reg))

RECURSIVE callArgs(_, _, _, _)
callArgs(cs, args, endReg, i) ==
  IF i >= Len(args) THEN cs
  ELSE callArgs(Visit(cs, args[i + 1], ED(FALSE, endReg + i + 1, endReg + i + 1)),
                args, endReg, i + 1)

\* resultCount without the + 1
callResultCount_noPlusOne(startReg, endReg) == endReg - startReg

\* resultCount = endReg - startReg + 1
callResultCount(startReg, endReg) == endReg - startReg + 1

VisitCallExpr(cs, node, d) ==
  LET startReg == DestReg(cs, d)
      endReg == IF d.ok THEN d.regb ELSE startReg
      resultCount == callResultCount(startReg, endReg)
      c1 == Visit(DestState(cs, d), node.left, ED(FALSE, startReg, startReg))
      callerReg == c1.rb
      c2 == IF c1.status = "run" /\ startReg # callerReg THEN RuntimePanic(c1) ELSE c1
      c3 == callArgs(c2, node.args, endReg, 0)
  IN Ret(emitABC(c3, "OP_CALL", callerReg, resultCount, Len(node.args), node.line), d.regb)

VisitPostfixExpr(cs, node, d) ==
  LET reg == DestReg(cs, d)
      op == CASE node.op = "T_PLUSPLUS" -> "OP_ADD"
              [] node.op = "T_MINUSMINUS" -> "OP_SUB"
              [] OTHER -> "OP_0"
      c1 == Visit(DestState(cs, d), node.left, ED(TRUE, reg, reg))
      left == c1.rb
      one == OpConstOffset + constIndex(c1, Number(1))
      c2 == addConst(c1, Number(1))
      c3 == IF d.ok THEN emitAB(c2, "OP_MOVE", reg, left, node.line) ELSE c2
  IN Ret(emitABC(c3, op, left, left, one, node.line), d.regb)

VisitUnaryExpr(cs, node, d) ==
  LET reg == DestReg(cs, d)
      f == constFold(DestState(cs, d), node)
      c0 == f.cs
  IN IF f.ok
     THEN IF d.ok /\ d.propagate
          THEN Ret(addConst(c0, f.val), OpConstOffset + constIndex(c0, f.val))
          ELSE Ret(emitABx(addConst(c0, f.val), "OP_LOADCONST", reg,
                           constIndex(c0, f.val), node.line), d.regb)
     ELSE IF IsPostfixOp(node.op)
     THEN LET op == IF node.op = "T_MINUSMINUS" THEN "OP_SUB" ELSE "OP_ADD"
              c1 == Visit(c0, node.right, ED(TRUE, reg, reg))
              one == OpConstOffset + constIndex(c1, Number(1))
              c2 == emitABC(addConst(c1, Number(1)), op, c1.rb, c1.rb, one, node.line)
          IN Ret(IF d.ok THEN emitAB(c2, "OP_MOVE", reg, c1.rb, node.line) ELSE c2, d.regb)
     ELSE LET op == CASE node.op = "T_MINUS" -> "OP_NEG"
                      [] node.op \in {"T_NOT", "T_BANG"} -> "OP_NOT"
                      [] node.op = "T_TILDE" -> "OP_CMPL"
                      [] OTHER -> "OP_0"
              c1 == Visit(c0, node.right, ED(TRUE, reg, reg))
          IN Ret(emitABx(c1, op, reg, c1.rb, node.line), PropReg(d, reg))

\* the opcode VisitBinaryExpr's switch picks for an operator token
binaryOpcode(tok) ==
  CASE tok = "T_PLUS" -> "OP_ADD"
    [] tok = "T_MINUS" -> "OP_SUB"
    [] tok = "T_TIMES" -> "OP_MUL"
    [] tok = "T_DIV" -> "OP_DIV"
    [] tok = "T_TIMESTIMES" -> "OP_POW"
    [] tok = "T_LTLT" -> "OP_SHL"
    [] tok = "T_GTGT" -> "OP_SHR"
    [] tok = "T_AMP" -> "OP_AND"
    [] tok = "T_PIPE" -> "OP_OR"
    [] tok = "T_TILDE" -> "OP_XOR"
    [] tok \in {"T_LT", "T_GTEQ"} -> "OP_LT"
    [] tok \in {"T_LTEQ", "T_GT"} -> "OP_LE"
    [] tok = "T_EQ" -> "OP_EQ"
    [] tok = "T_BANGEQ" -> "OP_NE"
    [] OTHER -> "OP_0"

VisitBinaryExpr(cs, node, d) ==
  LET reg == DestReg(cs, d)
      f == constFold(DestState(cs, d), node)
      c0 == f.cs
  IN IF f.ok
     THEN IF d.ok /\ d.propagate
          THEN Ret(addConst(c0, f.val), OpConstOffset + constIndex(c0, f.val))
          ELSE Ret(emitABx(addConst(c0, f.val), "OP_LOADCONST", reg,
                           constIndex(c0, f.val), node.line), d.regb)
     ELSE IF node.op \in {"T_AMPAMP", "T_PIPEPIPE"}
     THEN LET op == IF node.op = "T_AMPAMP" THEN "OP_JMPFALSE" ELSE "OP_JMPTRUE"
              c1 == Visit(c0, node.left, ED(TRUE, reg, reg))
              left == c1.rb
              jmpInstr == NumCode(c1)
              c2 == emitPlaceholder(c1, op, left, node.line)
              size == NumCode(c2)
              c3 == Visit(c2, node.right, ED(FALSE, reg, left))
          IN Ret(modifyAsBx(c3, jmpInstr, op, left, NumCode(c3) - size), d.regb)
     ELSE LET op == binaryOpcode(node.op)
              c1 == Visit(c0, node.left, ED(TRUE, reg, 0))
              left == c1.rb
              c2 == Visit(c1, node.right, ED(TRUE, reg + 1, left))
              right == c2.rb
              c3 == IF node.op \in {"T_GT", "T_GTEQ"}
                    THEN emitABC(c2, op, reg, right, left, node.line)
                    ELSE emitABC(c2, op, reg, left, right, node.line)
          IN Ret(c3, PropReg(d, reg))

branchConditionHelper(cs, cond, then, else, reg) ==
  LET c1 == Visit(cs, cond, ED(TRUE, reg + 1, reg + 1))
      condr == c1.rb
      jmpInstr == NumCode(c1)
      c2 == emitPlaceholder(c1, "OP_JMPFALSE", condr, c1.lastLine)
      thenLabel == newLabel(c2)
      c3 == Visit(c2, then, ED(FALSE, reg, reg))
      successInstr == NumCode(c3)
      c4 == emitPlaceholder(c3, "OP_JMP", 0, c3.lastLine)
      c5 == modifyAsBx(c4, jmpInstr, "OP_JMPFALSE", condr, labelOffset(c4, thenLabel))
      elseLabel == newLabel(c5)
      c6 == Visit(c5, else, ED(FALSE, reg, reg))
  IN modifyAsBx(c6, successInstr, "OP_JMP", 0, labelOffset(c6, elseLabel))

VisitTernaryExpr(cs, node, d) ==
  Ret(branchConditionHelper(DestState(cs, d), node.cond, node.then, node.else, DestReg(cs, d)),
      d.regb)

\* the loop of declare that reserves the registers of names[rem..] for a
\* trailing call or unpack
RECURSIVE declareReserve(_, _, _)
declareReserve(cs, names, rem) ==
  IF rem >= Len(names) THEN cs
  ELSE IF names[rem + 1].name \in DOMAIN CurBlock(cs).names
       THEN error(cs, "cannot redeclare")
  ELSE declareReserve(addNameInfo(genRegister(cs), names[rem + 1].name,
                                  nameinfo(FALSE, NilValue, Register(cs), kScopeLocal)),
                      names, rem + 1)

\* the tail of declare: variables without initializer are set to nil
declareFinish(cs, names, start, end) ==
  IF end >= start THEN emitAB(cs, "OP_LOADNIL", start, end, names[1].line) ELSE cs

\* start left where it was when the trailing call takes the registers
fanOutStart_unchanged(start, end) == start

\* exprdata.regb, start = end, end + 1: where the names without a value
\* start once the trailing call has taken the registers up to end
fanOutStart(start, end) == end + 1

RECURSIVE declareLoop(_, _, _, _, _, _)
declareLoop(cs, names, values, i, start, end) ==
  LET nameCount == Len(names)
      valueCount == Len(values)
      fanOut == valueCount > 0 /\ values[valueCount].kind \in {"CallExpr", "VarArg"}
      reg == Register(cs)
      c1 == addNameInfo(genRegister(cs), names[i + 1].name,
                        nameinfo(FALSE, NilValue, reg, kScopeLocal))
      c2 == declareReserve(c1, names, i + 1)
      end2 == IF i + 1 < nameCount THEN reg + (nameCount - 1 - i) ELSE end
  IN IF cs.status # "run" THEN cs
     ELSE IF i >= nameCount
     THEN declareFinish(cs, names, start, end)
     ELSE IF names[i + 1].name \in DOMAIN CurBlock(cs).names
     THEN error(cs, "cannot redeclare")
     ELSE IF i = valueCount - 1 /\ fanOut
     THEN declareFinish(Visit(c2, values[i + 1], ED(FALSE, reg, end2)),
                        names, fanOutStart(start, end2), end2)
     ELSE IF i < valueCount
     THEN declareLoop(Visit(c1, values[i + 1], ED(FALSE, reg, reg)),
                      names, values, i + 1, reg + 1, end)
     ELSE declareLoop(c1, names, values, i + 1, start, end)

declare(cs, names, values) ==
  declareLoop(cs, names, values, 0, Register(cs), Register(cs) + Len(names) - 1)

assignmentHelper(cs, left, assignReg, valueReg) ==
  CASE left.kind = "Id" ->
         LET ok == nameInfoOk(cs, left.name)
             info == nameInfoOf(cs, left.name)
             c1 == nameInfo(cs, left.name)
             scope == IF ok THEN info.scope ELSE kScopeGlobal
         IN IF scope = kScopeLocal
            THEN emitAB(c1, "OP_MOVE", info.reg, valueReg, left.line)
            ELSE emitABx(addConst(c1, String(left.name)),
                         IF scope = kScopeRef THEN "OP_SETREF" ELSE "OP_SETGLOBAL",
                         valueReg, constIndex(c1, String(left.name)), left.line)
    [] left.kind = "Subscript" ->
         LET c1 == Visit(cs, left.left, ED(TRUE, assignReg, assignReg))
             arrReg == c1.rb
             c2 == Visit(c1, left.right, ED(TRUE, assignReg, assignReg))
             subReg == c2.rb
         IN emitABC(c2, "OP_SET", arrReg, subReg, valueReg, left.line)
    [] left.kind = "Selector" ->
         LET c1 == Visit(cs, left.left, ED(TRUE, assignReg, assignReg))
             objReg == c1.rb
             key == OpConstOffset + constIndex(c1, String(left.key))
         IN emitABC(addConst(c1, String(left.key)), "OP_SET", objReg, key, valueReg, left.line)
    [] OTHER -> cs

RECURSIVE constDeclare(_, _, _)
constDeclare(cs, node, i) ==
  LET id == node.lhs[i + 1]
      f == constFold(cs, node.rhs[i + 1])
  IN IF cs.status # "run" \/ i >= Len(node.lhs) THEN cs
     ELSE IF id.name \in DOMAIN CurBlock(cs).names THEN error(cs, "cannot redeclare")
     ELSE IF i >= Len(node.rhs) THEN error(cs, "const without initializer")
     ELSE IF ~f.ok THEN error(f.cs, "const initializer is not a constant")
     ELSE constDeclare(addNameInfo(f.cs, id.name, nameinfo(TRUE, f.val, 0, kScopeLocal)),
                       node, i + 1)

VisitDeclaration(cs, node, d) ==
  IF node.isConst THEN constDeclare(cs, node, 0) ELSE declare(cs, node.lhs, node.rhs)

\* the first loop of VisitAssignment: the state after the right-hand sides
\* are evaluated, and current
RECURSIVE assignEvaluate(_, _, _, _, _)
assignEvaluate(cs, node, start, i, current) ==
  LET varCount == Len(node.lhs)
      valueCount == Len(node.rhs)
      fanOut == node.rhs[valueCount].kind \in {"CallExpr", "VarArg"}
      end == start + varCount - 1
      reg == start + i
  IN IF i >= varCount THEN [cs |-> cs, current |-> current]
     ELSE IF i = valueCount - 1 /\ fanOut
     THEN [cs |-> Visit(cs, node.rhs[i + 1], ED(FALSE, reg, end)), current |-> end]
     ELSE IF i < valueCount
     THEN assignEvaluate(Visit(cs, node.rhs[i + 1], ED(FALSE, reg, reg)),
                         node, start, i + 1, reg + 1)
     ELSE assignEvaluate(cs, node, start, i + 1, current)

\* the second loop: a store for each variable that has a value
RECURSIVE assignStore(_, _, _, _, _)
assignStore(cs, node, start, i, current) ==
  IF i >= Len(node.lhs) \/ start + i >= current THEN cs
  ELSE assignStore(assignmentHelper(cs, node.lhs[i + 1], current + 1, start + i),
                   node, start, i + 1, current)

RECURSIVE allIds(_, _)
allIds(nodes, i) == i > Len(nodes) \/ (nodes[i].kind = "Id" /\ allIds(nodes, i + 1))

VisitAssignment(cs, node, d) ==
  IF node.op = "T_COLONEQ"
  THEN IF allIds(node.lhs, 1) THEN declare(cs, node.lhs, node.rhs) ELSE RuntimePanic(cs)
  ELSE IF Len(node.rhs) = 0 THEN RuntimePanic(cs)
  ELSE LET start == Register(cs)
           e == assignEvaluate(cs, node, start, 0, start)
       IN assignStore(e.cs, node, start, 0, e.current)

VisitBranchStmt(cs, node, d) ==
  IF CurBlock(cs).context # kBlockContextLoop THEN error(cs, "outside loop")
  ELSE IF node.type = "T_CONTINUE"
  THEN emitAsBx(cs, "OP_JMP", 0, 0 - (NumCode(cs) - CurBlock(cs).start), node.line)
  ELSE IF node.type = "T_BREAK"
  THEN LET instr == NumCode(cs)
           c1 == emitPlaceholder(cs, "OP_JMP", 0, node.line)
       IN [c1 EXCEPT !.blocks[Len(c1.blocks)].pendingBreaks = Append(@, instr)]
  ELSE cs

RECURSIVE returnValues(_, _, _)
returnValues(cs, values, i) ==
  IF i > Len(values) THEN cs
  ELSE returnValues(Visit(genRegister(cs), values[i], ED(FALSE, Register(cs), Register(cs))),
                    values, i + 1)

VisitReturnStmt(cs, node, d) ==
  emitAB(returnValues(cs, node.values, 1), "OP_RETURN", Register(cs), Len(node.values), node.line)

VisitIfStmt(cs, node, d) ==
  LET c1 == IF d.ok THEN cs ELSE enterBlock(cs, kBlockContextBranch)
      c2 == IF node.init.kind # "nil" THEN Visit(c1, node.init, NoData) ELSE c1
      c3 == branchConditionHelper(c2, node.cond, node.body, node.else, Register(c2))
  IN IF d.ok THEN c3 ELSE leaveBlock(c3)

VisitForStmt(cs, node, d) ==
  LET c1 == enterBlock(cs, kBlockContextLoop)
      c2 == IF node.init.kind # "nil" THEN Visit(c1, node.init, NoData) ELSE c1
      reg == Register(c2)
      condLabel == newLabel(c2)
      c3 == Visit(c2, node.cond, ED(TRUE, reg, reg))
      cond == c3.rb
      jmpInstr == NumCode(c3)
      c4 == emitPlaceholder(c3, "OP_JMPFALSE", cond, c3.lastLine)
      bodyLabel == newLabel(c4)
      c5 == Visit(c4, node.body, NoData)
      c6 == decRegister(Visit(c5, node.step, NoData))
      c7 == emitAsBx(c6, "OP_JMP", 0, 0 - labelOffset(c6, condLabel) - 1, c6.lastLine)
      c8 == modifyAsBx(c7, jmpInstr, "OP_JMPFALSE", cond, labelOffset(c7, bodyLabel))
  IN leaveBlock(c8)

\* one iteration of VisitBlock's loop: the statement, then the register of
\* an expression used as a statement is given back
blockStep(cs, stmt) ==
  LET c1 == Visit(cs, stmt, NoData)
  IN IF IsStmt(stmt) THEN c1 ELSE decRegister(c1)

RECURSIVE blockNodes(_, _, _)
blockNodes(cs, nodes, i) ==
  IF i > Len(nodes) THEN cs ELSE blockNodes(blockStep(cs, nodes[i]), nodes, i + 1)

VisitBlock(cs, node, d) == blockNodes(cs, node.nodes, 1)

\* node.Accept(c, data): the visitor of the node's type; a nil node panics
Visit(cs, node, d) ==
  IF cs.status # "run" THEN cs
  ELSE CASE node.kind = "nil" -> RuntimePanic(cs)
         [] node.kind = "Nil" -> VisitNil(cs, node, d)
         [] node.kind = "Bool" -> VisitBool(cs, node, d)
         [] node.kind = "Number" -> VisitNumber(cs, node, d)
         [] node.kind = "String" -> VisitString(cs, node, d)
         [] node.kind = "Id" -> VisitId(cs, node, d)
         [] node.kind = "Array" -> VisitArray(cs, node, d)
         [] node.kind = "ObjectField" -> VisitObjectField(cs, node, d)
         [] node.kind = "Object" -> VisitObject(cs, node, d)
         [] node.kind = "Function" -> VisitFunction(cs, node, d)
         [] node.kind = "Selector" -> VisitSelector(cs, node, d)
         [] node.kind = "Subscript" -> VisitSubscript(cs, node, d)
         [] node.kind \in {"Slice", "KwArg", "VarArg", "ForIteratorStmt"} -> Ret(cs, d.regb)
         [] node.kind = "CallExpr" -> VisitCallExpr(cs, node, d)
         [] node.kind = "PostfixExpr" -> VisitPostfixExpr(cs, node, d)
         [] node.kind = "UnaryExpr" -> VisitUnaryExpr(cs, node, d)
         [] node.kind = "BinaryExpr" -> VisitBinaryExpr(cs, node, d)
         [] node.kind = "TernaryExpr" -> VisitTernaryExpr(cs, node, d)
         [] node.kind = "Declaration" -> VisitDeclaration(cs, node, d)
         [] node.kind = "Assignment" -> VisitAssignment(cs, node, d)
         [] node.kind = "BranchStmt" -> VisitBranchStmt(cs, node, d)
         [] node.kind = "ReturnStmt" -> VisitReturnStmt(cs, node, d)
         [] node.kind = "IfStmt" -> VisitIfStmt(cs, node, d)
         [] node.kind = "ForStmt" -> VisitForStmt(cs, node, d)
         [] node.kind = "Block" -> VisitBlock(cs, node, d)

(* --------------------------- the programs ----------------------------- *)

\* The compiled program is a Block of at most MaxStmts statements, each drawn
\* from the forms below.  A statement starts on its own line and its nested
\* blocks take the next two.

ExprIds == 1 .. 10

\* the expressions the statements are built from, on line l
Expr(k, l) ==
  CASE k = 1 -> NumberLit(l, 1)
    [] k = 2 -> Id(l, "x")
    [] k = 3 -> CallExpr(l, Id(l, "f"), <<>>)
    [] k = 4 -> BinaryExpr(l, "T_PLUS", Id(l, "x"), NumberLit(l, 1))
    [] k = 5 -> BinaryExpr(l, "T_LT", Id(l, "x"), Id(l, "y"))
    [] k = 6 -> BinaryExpr(l, "T_LTEQ", Id(l, "x"), Id(l, "y"))
    [] k = 7 -> BinaryExpr(l, "T_GT", Id(l, "x"), Id(l, "y"))
    [] k = 8 -> BinaryExpr(l, "T_GTEQ", Id(l, "x"), Id(l, "y"))
    [] k = 9 -> BinaryExpr(l, "T_AMPAMP", Id(l, "x"), Id(l, "y"))
    [] k = 10 -> PostfixExpr(l, "T_PLUSPLUS", Id(l, "x"))

Ids(l, names) == [i \in 1 .. Len(names) |-> Id(l, names[i])]

\* var x, y, z = 1, ..., f()  with n names and m values, the last one a call
VarCall(l, n, m) ==
  Declaration(l, FALSE, Ids(l, SubSeq(<<"x", "y", "z">>, 1, n)),
              [i \in 1 .. m |-> IF i = m THEN Expr(3, l) ELSE NumberLit(l, 1)])

AssignMulti(l, v) ==
  CASE v = 1 -> Assignment(l, "T_EQ", Ids(l, <<"x", "y">>), <<Expr(3, l)>>)
    [] v = 2 -> Assignment(l, "T_EQ", Ids(l, <<"x", "y">>), <<NumberLit(l, 1), Expr(3, l)>>)
    [] v = 3 -> Assignment(l, "T_EQ", Ids(l, <<"x", "y">>), Ids(l, <<"y", "x">>))

AssignTarget(l, v) ==
  CASE v = 1 -> Assignment(l, "T_EQ", <<Selector(l, Id(l, "g"), "k")>>, <<Id(l, "x")>>)
    [] v = 2 -> Assignment(l, "T_EQ", <<Subscript(l, Id(l, "x"), NumberLit(l, 1))>>,
                           <<NumberLit(l, 1)>>)

ExprStmt(l, v) ==
  CASE v = 1 -> Expr(3, l)
    [] v = 2 -> CallExpr(l, Id(l, "f"), <<NumberLit(l, 1), Id(l, "x")>>)
    [] v = 3 -> Expr(10, l)
    [] v = 4 -> CallExpr(l, Id(l, "f"), <<NumberLit(l, 1), NumberLit(l, 2)>>)

\* if x { then } else { else }
IfForm(l, t, e) ==
  IfStmt(l, NilNode, Id(l, "x"),
         IF t = 0 THEN Block(l, <<>>) ELSE Block(l, <<Expr(3, l + 1)>>),
         CASE e = 0 -> NilNode
           [] e = 1 -> Block(l + 2, <<>>)
           [] e = 2 -> Block(l + 2, <<Expr(3, l + 2)>>)
           [] e = 3 -> Block(l + 2, <<ReturnStmt(l + 2, <<Id(l + 2, "x")>>)>>))

\* if x { break } else { }  and  if x { continue } else { }
IfBranch(l, type) ==
  IfStmt(l, NilNode, Id(l, "x"), Block(l, <<BranchStmt(l, type)>>), Block(l + 1, <<>>))

ForBody(l, b) ==
  CASE b = 0 -> Block(l, <<>>)
    [] b = 1 -> Block(l, <<BranchStmt(l + 1, "T_BREAK")>>)
    [] b = 2 -> Block(l, <<BranchStmt(l + 1, "T_CONTINUE")>>)
    [] b = 3 -> Block(l, <<Expr(3, l + 1)>>)
    [] b = 4 -> Block(l, <<IfBranch(l + 1, "T_BREAK")>>)
    [] b = 5 -> Block(l, <<IfBranch(l + 1, "T_CONTINUE")>>)

\* for x := 0; x < 10; x = x + 1 { body }, and its variants
ForForm(l, init, cond, step, b) ==
  ForStmt(l,
          IF init = 0 THEN NilNode
          ELSE Assignment(l, "T_COLONEQ", <<Id(l, "x")>>, <<NumberLit(l, 0)>>),
          IF cond = 0 THEN NilNode
          ELSE BinaryExpr(l, "T_LT", Id(l, "x"), NumberLit(l, 10)),
          IF step = 1
          THEN Assignment(l, "T_EQ", <<Id(l, "x")>>,
                          <<BinaryExpr(l, "T_PLUS", Id(l, "x"), NumberLit(l, 1))>>)
          ELSE PostfixExpr(l, "T_PLUSPLUS", Id(l, "x")),
          ForBody(l, b))

FuncForm(l, v) ==
  CASE v = 1 -> Function(l, Id(l, "f"), Ids(l, <<"a", "b">>),
                         Block(l, <<ReturnStmt(l, <<BinaryExpr(l, "T_PLUS", Id(l, "a"),
                                                                Id(l, "b"))>>)>>))
    [] v = 2 -> Declaration(l, FALSE, <<Id(l, "h")>>,
                            <<Function(l, NilNode, <<>>,
                                       Block(l, <<ReturnStmt(l + 1, <<Id(l + 1, "x")>>)>>))>>)
    [] v = 3 -> Function(l, NilNode, <<>>, Block(l, <<>>))
    [] v = 4 -> Function(l, NilNode, Ids(l, <<"a">>), ReturnStmt(l, <<Id(l, "x")>>))
    [] v = 5 -> Function(l, Id(l, "f"), Ids(l, <<"x">>), Block(l, <<IfForm(l, 0, 3)>>))
    [] v = 6 -> Function(l, Id(l, "f"), Ids(l, <<"a">>),
                         Block(l, <<Declaration(l, TRUE, <<Id(l, "K")>>, <<NumberLit(l, 1)>>),
                                    Assignment(l + 1, "T_EQ", <<Id(l + 1, "K")>>,
                                               <<NumberLit(l + 1, 2)>>)>>))

(* ------------------------- the compile machine ------------------------ *)

\* c is the compiler of one call of Compile, prog the statements of the root
\* Block handed to it so far, pos the number of them VisitBlock has visited,
\* pre the compiler before its last step.

Init ==
  /\ c = NewCompiler
  /\ prog = <<>>
  /\ pos = 0
  /\ pre = NewCompiler

Line == 3 * Len(prog) + 1

\* the root Block has one more statement
Stmt(stmt) ==
  /\ c.status = "run"
  /\ pos = Len(prog)
  /\ Len(prog) < MaxStmts
  /\ prog' = Append(prog, stmt)
  /\ UNCHANGED <<c, pos, pre>>

StmtVar ==
  \E n \in {"x", "y"}, k \in ExprIds :
    /\ n = "y" => k = 1
    /\ Stmt(Declaration(Line, FALSE, <<Id(Line, n)>>, <<Expr(k, Line)>>))

StmtVarNil ==
  \E m \in 0 .. 1 :
    Stmt(Declaration(Line, FALSE, Ids(Line, <<"x", "y">>), [i \in 1 .. m |-> NumberLit(Line, 1)]))

StmtVarCall == \E n \in 1 .. 3, m \in 1 .. 2 : m <= n /\ Stmt(VarCall(Line, n, m))

StmtConst ==
  \E n \in {"x", "y"}, k \in {1, 4} :
    Stmt(Declaration(Line, TRUE, <<Id(Line, n)>>, <<Expr(k, Line)>>))

StmtShortDecl ==
  \E k \in 1 .. 3 : Stmt(Assignment(Line, "T_COLONEQ", <<Id(Line, "x")>>, <<Expr(k, Line)>>))

StmtAssign ==
  \E k \in ExprIds : Stmt(Assignment(Line, "T_EQ", <<Id(Line, "x")>>, <<Expr(k, Line)>>))

StmtAssignMulti == \E v \in 1 .. 3 : Stmt(AssignMulti(Line, v))

StmtAssignTarget == \E v \in 1 .. 2 : Stmt(AssignTarget(Line, v))

StmtExpr == \E v \in 1 .. 4 : Stmt(ExprStmt(Line, v))

StmtIf == \E t \in 0 .. 1, e \in 0 .. 3 : (e = 3 => t = 0) /\ Stmt(IfForm(Line, t, e))

StmtFor ==
  \E init \in 0 .. 1, cond \in 0 .. 1, step \in 1 .. 2, b \in 0 .. 5 :
    /\ cond = 1 \/ (init = 0 /\ step = 2 /\ b = 0)
    /\ b >= 4 => (init = 1 /\ cond = 1 /\ step = 1)
    /\ Stmt(ForForm(Line, init, cond, step, b))

StmtFunction == \E v \in 1 .. 6 : Stmt(FuncForm(Line, v))

StmtReturn == Stmt(ReturnStmt(Line, <<Id(Line, "x")>>))

\* VisitBlock's loop over the root Block visits the next statement
VisitStmt ==
  /\ c.status = "run"
  /\ pos < Len(prog)
  /\ c' = blockStep(c, prog[pos + 1])
  /\ pos' = pos + 1
  /\ pre' = c
  /\ UNCHANGED prog

\* the root Block is done: the return guard, and Compile returns mainFunc
Finish ==
  /\ c.status = "run"
  /\ pos = Len(prog)
  /\ c' = LET c1 == functionReturnGuard(c)
          IN IF c1.status = "run" THEN [c1 EXCEPT !.status = "ok"] ELSE c1
  /\ pre' = c
  /\ UNCHANGED <<prog, pos>>

Next ==
  \/ StmtVar
  \/ StmtVarNil
  \/ StmtVarCall
  \/ StmtConst
  \/ StmtShortDecl
  \/ StmtAssign
  \/ StmtAssignMulti
  \/ StmtAssignTarget
  \/ StmtExpr
  \/ StmtIf
  \/ StmtFor
  \/ StmtFunction
  \/ StmtReturn
  \/ VisitStmt
  \/ Finish

Spec == Init /\ [][Next]_vars

(* --------------------------- the scope machine ------------------------ *)

\* The operations on the block chain and its names, one at a time and in any
\* order: at most MaxOps of them, counted in pos.  prog holds the last one.

ScopeOp(kind, name) == <<[kind |-> kind, name |-> name]>>

ScopeStep(cs, op) ==
  /\ c.status = "run"
  /\ pos < MaxOps
  /\ c' = cs
  /\ prog' = op
  /\ pos' = pos + 1
  /\ pre' = c

\* enterBlock for a for statement or an if statement
ScopeEnter ==
  \E context \in {kBlockContextLoop, kBlockContextBranch} :
    ScopeStep(enterBlock(c, context), ScopeOp("enter", ""))

\* the block of a function literal, with its arguments
ScopeEnterFunc ==
  \E args \in {<<>>, <<"x">>} :
    ScopeStep(functionArgs(enterFunction(c), Ids(1, args), 1), ScopeOp("func", ""))

\* the end of the for or if statement, or of the function literal
ScopeLeave ==
  /\ Len(c.blocks) > 1
  /\ ScopeStep(IF CurBlock(c).context = kBlockContextFunc THEN leaveFunction(c)
               ELSE leaveBlock(c), ScopeOp("leave", ""))

\* var name
ScopeDeclare ==
  \E name \in {"x", "y"} :
    ScopeStep(declare(c, Ids(1, <<name>>), <<>>), ScopeOp("declare", name))

\* c.block.nameInfo(name)
ScopeLookup ==
  \E name \in {"x", "y"} : ScopeStep(nameInfo(c, name), ScopeOp("lookup", name))

NextScope ==
  \/ ScopeEnter
  \/ ScopeEnterFunc
  \/ ScopeLeave
  \/ ScopeDeclare
  \/ ScopeLookup

SpecScope == Init /\ [][NextScope]_vars

(* ------------------------------ properties ---------------------------- *)

\* the prototypes, and the code indices of one of them (0-based, as in Go)
Protos == 1 .. Len(c.protos)
CodeIdx(p) == 0 .. Len(c.protos[p].Code) - 1
CodeAt(p, i) == c.protos[p].Code[i + 1]

\* the root Block's last statement has just been visited without an error
Visited == c.status = "run" /\ pos >= 1 /\ pos = Len(prog)
Last == prog[pos]

\* what that visit appended to the root prototype, and the first register
\* that was free when it started
NewCode == SubSeq(c.protos[1].Code, Len(pre.protos[1].Code) + 1, Len(c.protos[1].Code))
StartReg == Register(pre)

\* C1, as the spec states it: Compile ends by returning the root prototype or
\* by returning one CompileError; no runtime panic escapes it.  Refuted by
\* the empty program, whose return guard indexes Code[NumCode-1] of no code.
C1_CompileOutcome == c.status \in {"run", "ok", "error"}

\* the jumps that were emitted as placeholders
Placeholders ==
  UNION {{<<p, i>> : i \in {j \in CodeIdx(p) : CodeAt(p, j).ph # "none"}} : p \in Protos}

\* C2, as the spec states it: in a successful compile every placeholder jump
\* was overwritten before its block was left, and none carries offset 0.
C2_NoZeroOffset ==
  c.status = "ok" =>
    /\ ~c.leftPending
    /\ \A x \in Placeholders :
         CodeAt(x[1], x[2]).ph = "patched" /\ CodeAt(x[1], x[2]).b # 0

\* C2, amended: while the compile has not failed no block has been left with
\* a placeholder pending in it, and in a successful compile every placeholder jump was overwritten with the number
\* of instructions emitted after it up to its patch, which is 0 when the part
\* it skips emitted none.
C2_PlaceholdersPatched ==
  c.status \in {"run", "ok"} =>
    /\ ~c.leftPending
    /\ c.status = "ok" =>
         \A x \in Placeholders :
           LET instr == CodeAt(x[1], x[2])
           IN /\ instr.ph = "patched"
              /\ instr.op \in JumpOps
              /\ instr.b = instr.at - x[2] - 1
              /\ instr.b >= 0

\* a finished program with a patched jump of offset 0 and one of another offset
C2_Witness ==
  /\ c.status = "ok"
  /\ \E x \in Placeholders : CodeAt(x[1], x[2]).ph = "patched" /\ CodeAt(x[1], x[2]).b = 0
  /\ \E x \in Placeholders : CodeAt(x[1], x[2]).ph = "patched" /\ CodeAt(x[1], x[2]).b > 0

\* C3, as the spec states it: no prototype ever holds a MOVE whose destination
\* is its source.  Refuted by  var x = x.
C3_NoSelfMove ==
  \A p \in Protos : \A i \in CodeIdx(p) :
    CodeAt(p, i).op = "OP_MOVE" => CodeAt(p, i).a # CodeAt(p, i).b

\* C4, as the spec states it: each line table is non-decreasing in codeIndex
\* and in line.
C4_LinesMonotone ==
  \A p \in Protos : \A j \in 1 .. Len(c.protos[p].Lines) - 1 :
    /\ c.protos[p].Lines[j].codeIndex <= c.protos[p].Lines[j + 1].codeIndex
    /\ c.protos[p].Lines[j].line <= c.protos[p].Lines[j + 1].line

\* C4, amended: each line table is strictly increasing in codeIndex, starts at
\* the first instruction, and each entry holds the line of the instruction at
\* its codeIndex; the lines themselves may decrease.
C4_LineTable ==
  \A p \in Protos :
    LET lines == c.protos[p].Lines
    IN /\ \A j \in 1 .. Len(lines) - 1 : lines[j].codeIndex < lines[j + 1].codeIndex
       /\ \A j \in 1 .. Len(lines) :
            /\ lines[j].codeIndex \in CodeIdx(p)
            /\ CodeAt(p, lines[j].codeIndex).line = lines[j].line
       /\ c.protos[p].Code # <<>> => Len(lines) >= 1 /\ lines[1].codeIndex = 0

\* a line table whose lines decrease: a for step after a body on a later line
C4_Witness ==
  \E p \in Protos : \E j \in 1 .. Len(c.protos[p].Lines) - 1 :
    c.protos[p].Lines[j].line > c.protos[p].Lines[j + 1].line

\* the innermost block that holds the name (0 when none does), and whether
\* a lookup from the current block passes a Function block on its way to it
Holder(blocks, name) ==
  LET held == {i \in 1 .. Len(blocks) : name \in DOMAIN blocks[i].names}
  IN IF held = {} THEN 0 ELSE CHOOSE i \in held : \A j \in held : j <= i
Crosses(blocks, name) ==
  \E j \in Holder(blocks, name) + 1 .. Len(blocks) : blocks[j].context = kBlockContextFunc

\* the scope machine's last operation was a lookup that ran
LookedUp == prog # <<>> /\ prog[1].kind = "lookup" /\ c.status = "run"

\* the entries that the blocks before and after the last operation share
SharedNames ==
  UNION {{<<i, n>> : n \in DOMAIN pre.blocks[i].names \cap DOMAIN c.blocks[i].names} :
         i \in 1 .. (IF Len(pre.blocks) < Len(c.blocks) THEN Len(pre.blocks) ELSE Len(c.blocks))}

\* C5: a lookup that passes a Function block and finds a Local makes that
\* entry Ref and returns it; a lookup that passes none changes nothing; no
\* lookup changes anything else; and no operation turns a Ref back.
C5_ScopeUpgrade ==
  /\ LookedUp =>
       LET name == prog[1].name
           h == Holder(pre.blocks, name)
       IN /\ Len(c.blocks) = Len(pre.blocks)
          /\ (h > 0 /\ Crosses(pre.blocks, name)
                /\ pre.blocks[h].names[name].scope = kScopeLocal)
               => c.blocks[h].names[name].scope = kScopeRef
          /\ ~(h > 0 /\ Crosses(pre.blocks, name)) => c.blocks = pre.blocks
          /\ h > 0 => nameInfoOf(pre, name) = c.blocks[h].names[name]
          /\ \A i \in 1 .. Len(pre.blocks) :
               /\ DOMAIN c.blocks[i].names = DOMAIN pre.blocks[i].names
               /\ \A n \in DOMAIN pre.blocks[i].names :
                    /\ <<i, n>> # <<h, name>> => c.blocks[i].names[n] = pre.blocks[i].names[n]
                    /\ c.blocks[i].names[n].reg = pre.blocks[i].names[n].reg
  /\ \A x \in SharedNames :
       pre.blocks[x[1]].names[x[2]].scope = kScopeRef
         => c.blocks[x[1]].names[x[2]].scope = kScopeRef

\* a lookup across a Function block has just turned a Local into a Ref
C5_Witness ==
  /\ LookedUp
  /\ Holder(pre.blocks, prog[1].name) > 0
  /\ Crosses(pre.blocks, prog[1].name)
  /\ pre.blocks[Holder(pre.blocks, prog[1].name)].names[prog[1].name].scope = kScopeLocal
  /\ c.blocks[Holder(pre.blocks, prog[1].name)].names[prog[1].name].scope = kScopeRef

\* the Loop blocks that leaveBlock has been executed on
LeftLoops == {k \in 1 .. Len(c.left) : c.left[k].block.context = kBlockContextLoop}

\* C6, as the spec states it: after leaveBlock on a Loop block its
\* pendingBreaks is empty.
C6_PendingBreaksEmpty == \A k \in LeftLoops : c.left[k].block.pendingBreaks = <<>>

\* C6, amended: after leaveBlock on a Loop block every index in its
\* pendingBreaks is a JMP patched to the instruction after the last one
\* emitted; the list itself keeps its indices.
C6_PendingBreaksPatched ==
  \A k \in LeftLoops :
    LET block == c.left[k].block
    IN \A j \in 1 .. Len(block.pendingBreaks) :
         LET index == block.pendingBreaks[j]
             instr == c.protos[block.proto].Code[index + 1]
         IN /\ instr.op = "OP_JMP"
            /\ instr.ph = "patched"
            /\ index + 1 + instr.b = c.left[k].numCode

\* a Loop block with a break in it has been left
C6_Witness == \E k \in LeftLoops : c.left[k].block.pendingBreaks # <<>>

\* the register a store instruction reads (-1 for any other instruction)
StoreReads(instr) ==
  CASE instr.op = "OP_MOVE" -> instr.b
    [] instr.op \in {"OP_SETGLOBAL", "OP_SETREF"} -> instr.a
    [] instr.op = "OP_SET" -> instr.c
    [] OTHER -> -1

\* the last statement is  a, b, ... = values  with a value for each name
AssignedAll ==
  /\ Visited
  /\ Last.kind = "Assignment" /\ Last.op = "T_EQ"
  /\ allIds(Last.lhs, 1)
  /\ Len(Last.rhs) >= 1
  /\ \/ Len(Last.rhs) = Len(Last.lhs)
     \/ Len(Last.rhs) < Len(Last.lhs) /\ Last.rhs[Len(Last.rhs)].kind \in {"CallExpr", "VarArg"}

\* C7, as the spec states it, for targets that are names: the assignment ends
\* with one store per target, the i-th reading register start+i.  Refuted by
\* x = f().
C7_StorePerTarget ==
  AssignedAll =>
    LET n == Len(Last.lhs)
    IN /\ Len(NewCode) >= n
       /\ \A i \in 0 .. n - 1 : StoreReads(NewCode[Len(NewCode) - n + i + 1]) = StartReg + i

\* the last statement declares n names with m <= n values, the last a call
FanOutDeclared ==
  /\ Visited
  /\ \/ Last.kind = "Declaration" /\ ~Last.isConst
     \/ Last.kind = "Assignment" /\ Last.op = "T_COLONEQ"
  /\ Len(Last.rhs) >= 1 /\ Len(Last.rhs) <= Len(Last.lhs)
  /\ Last.rhs[Len(Last.rhs)].kind = "CallExpr"

\* C8: such a declaration gives its names the registers start..start+n-1 in
\* order, ends with CALL A = start+m-1 expecting n-m+1 results, and emits no
\* LOADNIL.
C8_FanOutDeclaration ==
  FanOutDeclared =>
    LET n == Len(Last.lhs)
        m == Len(Last.rhs)
    IN /\ \A i \in 1 .. n :
            /\ Last.lhs[i].name \in DOMAIN CurBlock(c).names
            /\ CurBlock(c).names[Last.lhs[i].name].reg = StartReg + i - 1
       /\ NewCode # <<>>
       /\ NewCode[Len(NewCode)].op = "OP_CALL"
       /\ NewCode[Len(NewCode)].a = StartReg + m - 1
       /\ NewCode[Len(NewCode)].b = n - m + 1
       /\ \A j \in 1 .. Len(NewCode) : NewCode[j].op # "OP_LOADNIL"

\* var x, y, z = f()  and  var x, y = 1, f()  have been compiled
C8_Witness ==
  /\ FanOutDeclared
  /\ \/ Len(Last.lhs) = 3 /\ Len(Last.rhs) = 1
     \/ Len(Last.lhs) = 2 /\ Len(Last.rhs) = 2

\* the register a name used as an operand is read from: its own when it is a
\* local, else the temporary it is loaded into
OperandReg(name, tmp) ==
  IF name \in DOMAIN CurBlock(c).names /\ CurBlock(c).names[name].scope = kScopeLocal
  THEN CurBlock(c).names[name].reg ELSE tmp
NonConstant(name) ==
  name \notin DOMAIN CurBlock(c).names \/ ~CurBlock(c).names[name].isConst

\* the last statement is  var v = a OP b  with OP a comparison of two names
Compared ==
  /\ Visited
  /\ Last.kind = "Declaration" /\ ~Last.isConst
  /\ Len(Last.lhs) = 1 /\ Len(Last.rhs) = 1
  /\ Last.rhs[1].kind = "BinaryExpr"
  /\ Last.rhs[1].op \in {"T_LT", "T_LTEQ", "T_GT", "T_GTEQ"}
  /\ Last.rhs[1].left.kind = "Id" /\ Last.rhs[1].right.kind = "Id"
  /\ NonConstant(Last.rhs[1].left.name) /\ NonConstant(Last.rhs[1].right.name)

\* C9, as the spec states it: a > b is LT (b, a), a >= b is LE (b, a), a < b is
\* LT (a, b) and a <= b is LE (a, b).  Refuted by  var x = x > y.
C9_Comparison ==
  Compared =>
    LET e == Last.rhs[1]
        instr == NewCode[Len(NewCode)]
        ra == OperandReg(e.left.name, StartReg)
        rb == OperandReg(e.right.name, StartReg + 1)
    IN /\ instr.op = IF e.op \in {"T_LT", "T_GT"} THEN "OP_LT" ELSE "OP_LE"
       /\ <<instr.b, instr.c>> = IF e.op \in {"T_GT", "T_GTEQ"} THEN <<rb, ra>> ELSE <<ra, rb>>

\* the constant operand K(n) of the root prototype
IsK(operand, n) ==
  /\ operand - OpConstOffset \in 0 .. Len(c.protos[1].Consts) - 1
  /\ ValueEq(c.protos[1].Consts[operand - OpConstOffset + 1], Number(n))

\* the last statement is  for x := 0; x < 10; x = x + 1 { }
LoopCompiled == Visited /\ Last = ForForm(Last.line, 1, 1, 1, 0)

\* the words of the code the last statement emitted
NewWords == [j \in 1 .. Len(NewCode) |-> <<NewCode[j].op, NewCode[j].a, NewCode[j].b, NewCode[j].c>>]

\* C10, as the spec states it: the loop is LOADCONST R0,K(0); LT R1,R0,K(10);
\* JMPFALSE R1,+k; ADD R0,R0,K(1); JMP back to the LT, and k lands past the JMP.
C10_LoopListing ==
  LoopCompiled =>
    LET r == StartReg
    IN /\ Len(NewCode) = 5
       /\ NewCode[1].op = "OP_LOADCONST" /\ NewCode[1].a = r
       /\ IsK(NewCode[1].b + OpConstOffset, 0)
       /\ NewCode[2].op = "OP_LT" /\ NewCode[2].a = r + 1 /\ NewCode[2].b = r
       /\ IsK(NewCode[2].c, 10)
       /\ NewWords[3] = <<"OP_JMPFALSE", r + 1, 2, 0>>
       /\ NewCode[4].op = "OP_ADD" /\ NewCode[4].a = r /\ NewCode[4].b = r
       /\ IsK(NewCode[4].c, 1)
       /\ NewWords[5] = <<"OP_JMP", 0, -4, 0>>

\* C10, amended: the loop is LOADCONST Rr,K(0); LT Rr+1,Rr,K(10);
\* JMPFALSE Rr+1,+3; ADD Rr+1,Rr,K(1); MOVE Rr,Rr+1; JMP -5, where r is the
\* first free register: the sum goes to the temporary and a MOVE stores it.
C10_LoopListingMove ==
  LoopCompiled =>
    LET r == StartReg
    IN /\ Len(NewCode) = 6
       /\ NewCode[1].op = "OP_LOADCONST" /\ NewCode[1].a = r
       /\ IsK(NewCode[1].b + OpConstOffset, 0)
       /\ NewCode[2].op = "OP_LT" /\ NewCode[2].a = r + 1 /\ NewCode[2].b = r
       /\ IsK(NewCode[2].c, 10)
       /\ NewWords[3] = <<"OP_JMPFALSE", r + 1, 3, 0>>
       /\ NewCode[4].op = "OP_ADD" /\ NewCode[4].a = r + 1 /\ NewCode[4].b = r
       /\ IsK(NewCode[4].c, 1)
       /\ NewWords[5] = <<"OP_MOVE", r, r + 1, 0>>
       /\ NewWords[6] = <<"OP_JMP", 0, -5, 0>>

\* the loop has been compiled after a statement that took a register
C10_Witness == LoopCompiled /\ StartReg > 0

\* the words of a code vector
Words(code) == [j \in 1 .. Len(code) |-> <<code[j].op, code[j].a, code[j].b, code[j].c>>]

\* the index of a value in the root prototype's constant pool
KIndex(value) == constIndexFrom(c.protos[1].Consts, value, 1)

\* the program is  func f(a, b) { return a + b }; f(1, 2)  and both
\* statements have been visited
FuncCallCompiled ==
  /\ Visited /\ pos = 2
  /\ prog[1] = FuncForm(prog[1].line, 1)
  /\ prog[2] = ExprStmt(prog[2].line, 4)

\* C11, as the spec states it: the nested prototype is ADD R2,R0,R1;
\* RETURN R2,1 at index 0 of funcs, and the main code is exactly FUNC R0,0;
\* LOADCONST R1,K(1); LOADCONST R2,K(2); CALL R0,1,2.
C11_FuncCallListing ==
  FuncCallCompiled =>
    /\ c.protos[1].Funcs = <<2>>
    /\ Words(c.protos[2].Code) = <<<<"OP_ADD", 2, 0, 1>>, <<"OP_RETURN", 2, 1, 0>>>>
    /\ Words(c.protos[1].Code) =
         <<<<"OP_FUNC", 0, 0, 0>>,
           <<"OP_LOADCONST", 1, KIndex(Number(1)), 0>>,
           <<"OP_LOADCONST", 2, KIndex(Number(2)), 0>>,
           <<"OP_CALL", 0, 1, 2>>>>

\* C11, amended: the nested prototype is as stated; the main code also
\* stores the function in the global f and loads it again for the call:
\* FUNC R0,0; SETGLOBAL R0,K("f"); LOADGLOBAL Rr,K("f"); LOADCONST Rr+1,K(1);
\* LOADCONST Rr+2,K(2); CALL Rr,1,2, with r the first free register at the call.
C11_FuncCallListingGlobal ==
  FuncCallCompiled =>
    LET r == StartReg
    IN /\ c.protos[1].Funcs = <<2>>
       /\ Words(c.protos[2].Code) = <<<<"OP_ADD", 2, 0, 1>>, <<"OP_RETURN", 2, 1, 0>>>>
       /\ KIndex(String("f")) < Len(c.protos[1].Consts)
       /\ KIndex(Number(1)) < Len(c.protos[1].Consts)
       /\ KIndex(Number(2)) < Len(c.protos[1].Consts)
       /\ Words(c.protos[1].Code) =
            <<<<"OP_FUNC", 0, 0, 0>>,
              <<"OP_SETGLOBAL", 0, KIndex(String("f")), 0>>,
              <<"OP_LOADGLOBAL", r, KIndex(String("f")), 0>>,
              <<"OP_LOADCONST", r + 1, KIndex(Number(1)), 0>>,
              <<"OP_LOADCONST", r + 2, KIndex(Number(2)), 0>>,
              <<"OP_CALL", r, 1, 2>>>>

C11_Witness == FuncCallCompiled /\ Len(c.protos[1].Code) = 6

(* ------------------------------- tokens -------------------------------- *)

\* operators between two operands of a generated expression
MaxOperators == 3

\* precedence levels of the binary operators
MaxLevel == 3

\* elements of a generated list
MaxElems == 2

\* a token and its literal
Token(tok, lit) == [tok |-> tok, lit |-> lit]

EOS == Token("EOS", "")

\* the binary operators of the generated expressions
BinOps == {"PLUS", "TIMES", "TIMESTIMES"}

\* The token package is a parameter of the parser model: tk.prec gives each
\* binary operator its precedence, tk.right is the set of precedence levels
\* whose operators are right-associative.  The parser only compares
\* precedences, so the levels in use are taken without gaps.
TokenTables ==
  {tk \in [prec : [BinOps -> 1 .. MaxLevel], right : SUBSET (1 .. MaxLevel)] :
     \A l \in 1 .. MaxLevel :
       (\E op \in BinOps : tk.prec[op] > l) => (\E op \in BinOps : tk.prec[op] = l)}

IsUnaryOp(tok) == tok \in {"MINUS", "NOT", "BANG"}
IsBinaryOp(tk, tok) == tok \in DOMAIN tk.prec
Precedence(tk, tok) == IF tok \in DOMAIN tk.prec THEN tk.prec[tok] ELSE 0
RightAssociative(tk, tok) == tok \in DOMAIN tk.prec /\ tk.prec[tok] \in tk.right
IsAssignOp(tok) == tok \in {"EQ", "COLONEQ", "PLUSEQ"}

(* ------------------------------- parser -------------------------------- *)

\* The parser p is the record ps: toks is the source as the tokenizer cuts
\* it, i the index of p.tok in it (past the end the tokenizer keeps giving
\* EOS), ign is p.ignoreNewlines and tk the token package.  A production
\* returns the parser it leaves, its node (or list of nodes) and its error,
\* <<>> for a nil error.

makeParser(source, tk) == [toks |-> source, i |-> 0, ign |-> TRUE, tk |-> tk]

TokAt(ps, j) == IF j >= 1 /\ j <= Len(ps.toks) THEN ps.toks[j] ELSE EOS

\* p.tok and p.literal
ptok(ps) == TokAt(ps, ps.i).tok
literal(ps) == TokAt(ps, ps.i).lit

Ok(ps, node) == [p |-> ps, node |-> node, err |-> <<>>]
Fail(ps, msg) == [p |-> ps, node |-> NilNode, err |-> msg]

parser_error(ps, msg) == Fail(ps, <<msg, ptok(ps)>>)
errorExpected(ps, expected) == Fail(ps, <<"unexpected", ptok(ps), expected>>)

RECURSIVE nextFrom(_, _)
nextFrom(ps, j) ==
  IF j > Len(ps.toks) THEN [ps EXCEPT !.i = Len(ps.toks) + 1]
  ELSE IF ps.ign /\ ps.toks[j].tok = "NEWLINE" THEN nextFrom(ps, j + 1)
  ELSE [ps EXCEPT !.i = j]

next(ps) == nextFrom(ps, ps.i + 1)

accept(ps, toktype) == IF ptok(ps) = toktype THEN next(ps) ELSE ps

\* The productions call each other through rule: name is the production,
\* ps the parser it is called on and a its other arguments.
RECURSIVE rule(_, _, _)


idListLoop(ps, list) ==
  IF ptok(ps) # "ID" THEN Ok(ps, list)
  ELSE LET p1 == next(ps)
           l1 == Append(list, Id(0, literal(ps)))
       IN IF ptok(p1) = "COMMA" THEN rule("idListLoop", next(p1), <<l1>>) ELSE Ok(p1, l1)

idList(ps) == rule("idListLoop", ps, << <<>> >>)

checkIdList(list) == \A j \in 1 .. Len(list) : list[j].kind = "Id"

exprListLoop(ps, inArray, list) ==
  IF inArray /\ ptok(ps) = "RBRACK" THEN Ok(ps, list)
  ELSE LET e == rule("expr", ps, <<>>)
       IN IF e.err # <<>> THEN e
          ELSE IF ptok(e.p) = "COMMA"
               THEN rule("exprListLoop", next(e.p), <<inArray, Append(list, e.node)>>)
               ELSE Ok(e.p, Append(list, e.node))

exprList(ps, inArray) == rule("exprListLoop", ps, << inArray, <<>> >>)

objectFieldListLoop(ps, list) ==
  IF ptok(ps) = "RBRACE" THEN Ok(ps, list)
  ELSE LET key == rule("expr", ps, <<>>)
           value == rule("expr", next(key.p), <<>>)
           keyed == ptok(key.p) = "COLON"
           after == IF keyed THEN value.p ELSE key.p
           field == IF keyed THEN ObjectField(0, key.node, value.node)
                    ELSE ObjectField(0, key.node, NilNode)
       IN IF key.err # <<>> THEN key
          ELSE IF keyed /\ value.err # <<>> THEN value
          ELSE IF ptok(after) = "COMMA"
               THEN rule("objectFieldListLoop", next(after), <<Append(list, field)>>)
               ELSE Ok(after, Append(list, field))

objectFieldList(ps) == rule("objectFieldListLoop", ps, << <<>> >>)

array(ps) ==
  LET p1 == next(ps)
      l == exprList(p1, TRUE)
  IN IF ptok(p1) = "RBRACK" THEN Ok(next(p1), Array(0, <<>>))
     ELSE IF l.err # <<>> THEN l
     ELSE IF ptok(l.p) # "RBRACK" THEN errorExpected(l.p, "closing ']'")
     ELSE Ok(next(l.p), Array(0, l.node))

object(ps) ==
  LET p1 == next(ps)
      l == objectFieldList(p1)
  IN IF ptok(p1) = "RBRACE" THEN Ok(next(p1), Object(0, <<>>))
     ELSE IF l.err # <<>> THEN l
     ELSE IF ptok(l.p) # "RBRACE" THEN errorExpected(l.p, "closing '}'")
     ELSE Ok(next(l.p), Object(0, l.node))

\* the end of one turn of the loop of functionArgs, and what follows the loop
functionArgsEnd(ps, list, vararg, kwarg) ==
  IF ptok(ps) = "COMMA" THEN rule("functionArgsLoop", next(ps), <<list, vararg, kwarg>>)
  ELSE IF ptok(ps) # "RPAREN" THEN errorExpected(ps, "closing ')'")
  ELSE Ok(next(ps), list)

functionArgsLoop(ps, list, vararg, kwarg) ==
  IF ptok(ps) # "ID"
  THEN IF ptok(ps) # "RPAREN" THEN errorExpected(ps, "closing ')'")
       ELSE Ok(next(ps), list)
  ELSE IF vararg THEN parser_error(ps, "argument after variadic argument")
  ELSE LET id == literal(ps)
           p1 == next(ps)
           value == rule("expr", next(p1), <<>>)
       IN IF ptok(p1) = "EQ"
          THEN IF value.err # <<>> THEN value
               ELSE functionArgsEnd(value.p, Append(list, KwArg(0, id, value.node)),
                                    vararg, TRUE)
          ELSE IF ptok(p1) = "DOTDOTDOT"
          THEN functionArgsEnd(next(p1), Append(list, VarArg(0, Id(0, id))), TRUE, kwarg)
          ELSE IF kwarg
          THEN parser_error(p1, "positional argument after keyword argument")
          ELSE functionArgsEnd(p1, Append(list, Id(0, id)), vararg, kwarg)

parser_functionArgs(ps) ==
  IF ptok(ps) # "LPAREN" THEN errorExpected(ps, "'('")
  ELSE LET p1 == next(ps)
       IN IF ptok(p1) = "RPAREN" THEN Ok(next(p1), <<>>)
          ELSE rule("functionArgsLoop", p1, << <<>>, FALSE, FALSE >>)

functionBody(ps) ==
  IF ptok(ps) = "TILDE"
  THEN LET args == parser_functionArgs(next(ps))
           body == rule("functionBody", args.p, <<>>)
       IN IF args.err # <<>> THEN args
          ELSE IF body.err # <<>> THEN body
          ELSE Ok(body.p, ReturnStmt(0, <<Function(0, NilNode, args.node, body.node)>>))
  ELSE IF ptok(ps) = "EQGT"
  THEN LET l == exprList(next(ps), FALSE)
       IN IF l.err # <<>> THEN l ELSE Ok(l.p, ReturnStmt(0, l.node))
  ELSE IF ptok(ps) = "LBRACE" THEN rule("block", ps, <<>>)
  ELSE errorExpected(ps, "'^', '=>' or '{'")

function(ps) ==
  LET p1 == next(ps)
      named == ptok(p1) = "ID"
      p2 == IF named THEN next(p1) ELSE p1
      dotted == named /\ ptok(p2) = "DOT"
      p3 == IF dotted THEN next(p2) ELSE p2
      selects == dotted /\ ptok(p3) = "ID"
      p4 == IF selects THEN next(p3) ELSE p3
      name == IF ~named THEN NilNode
              ELSE IF selects THEN Selector(0, Id(0, literal(p1)), literal(p3))
              ELSE Id(0, literal(p1))
      args == parser_functionArgs(p4)
      body == rule("functionBody", args.p, <<>>)
  IN IF args.err # <<>> THEN args
     ELSE IF body.err # <<>> THEN body
     ELSE Ok(body.p, Function(0, name, args.node, body.node))

\* a variant of primaryExpr without the deferred p.next(): a literal or an
\* identifier is returned and its token is left in place
primaryExpr_noDefer(ps) ==
  CASE ptok(ps) = "FUNC" -> rule("function", ps, <<>>)
    [] ptok(ps) = "LBRACK" -> rule("array", ps, <<>>)
    [] ptok(ps) = "LBRACE" -> rule("object", ps, <<>>)
    [] ptok(ps) = "LPAREN" ->
         LET e == rule("expr", next(ps), <<>>)
         IN IF e.err # <<>> THEN e
            ELSE IF ptok(e.p) # "RPAREN" THEN errorExpected(e.p, "closing ')'")
            ELSE Ok(next(e.p), e.node)
    [] ptok(ps) \in {"INT", "FLOAT"} -> Ok(ps, NumberLit(0, literal(ps)))
    [] ptok(ps) = "ID" -> Ok(ps, Id(0, literal(ps)))
    [] OTHER -> Fail(ps, <<"unexpected", ptok(ps)>>)

primaryExpr(ps) ==
  CASE ptok(ps) = "FUNC" -> rule("function", ps, <<>>)
    [] ptok(ps) = "LBRACK" -> rule("array", ps, <<>>)
    [] ptok(ps) = "LBRACE" -> rule("object", ps, <<>>)
    [] ptok(ps) = "LPAREN" ->
         LET e == rule("expr", next(ps), <<>>)
         IN IF e.err # <<>> THEN e
            ELSE IF ptok(e.p) # "RPAREN" THEN errorExpected(e.p, "closing ')'")
            ELSE Ok(next(e.p), e.node)
    [] OTHER ->
         \* defer p.next(): the token is passed over on every return
         CASE ptok(ps) \in {"INT", "FLOAT"} -> Ok(next(ps), NumberLit(0, literal(ps)))
           [] ptok(ps) = "ID" -> Ok(next(ps), Id(0, literal(ps)))
           [] ptok(ps) = "STRING" -> Ok(next(ps), StringLit(0, literal(ps)))
           [] ptok(ps) \in {"TRUE", "FALSE"} -> Ok(next(ps), BoolLit(0, ptok(ps) = "TRUE"))
           [] ptok(ps) = "NIL" -> Ok(next(ps), NilLit(0))
           [] OTHER -> Fail(next(ps), <<"unexpected", ptok(ps)>>)

selectorExpr(ps, left) ==
  IF ptok(ps) # "ID" THEN errorExpected(ps, "identifier")
  ELSE Ok(next(ps), Selector(0, left, literal(ps)))

subscriptExpr(ps, left) ==
  LET e == rule("expr", ps, <<>>)
      sliced == ptok(e.p) = "COLON"
      e2 == rule("expr", next(e.p), <<>>)
      after == IF sliced THEN e2.p ELSE e.p
      sub == IF sliced THEN Subscript(0, left, Slice(0, e.node, e2.node))
             ELSE Subscript(0, left, e.node)
  IN IF e.err # <<>> THEN e
     ELSE IF sliced /\ e2.err # <<>> THEN e2
     ELSE IF ptok(after) # "RBRACK" THEN errorExpected(after, "closing ']'")
     ELSE Ok(next(after), sub)

\* the loop of selectorOrSubscriptExpr
selectorLoop(ps, left) ==
  IF ptok(ps) \notin {"DOT", "LBRACK"} THEN Ok(ps, left)
  ELSE LET p1 == next([ps EXCEPT !.ign = FALSE])
           p2 == [p1 EXCEPT !.ign = ps.ign]
           r == IF ptok(ps) = "DOT" THEN selectorExpr(p2, left)
                ELSE rule("subscriptExpr", p2, <<left>>)
       IN IF ptok(p1) \in {"NEWLINE", "EOS"}
          THEN parser_error(p1, "expression not terminated")
          ELSE IF r.err # <<>> THEN r
          ELSE rule("selectorLoop", r.p, <<r.node>>)

selectorOrSubscriptExpr(ps, left) ==
  IF left.kind = "nil"
  THEN LET r == rule("primaryExpr", ps, <<>>)
       IN IF r.err # <<>> THEN r ELSE rule("selectorLoop", r.p, <<r.node>>)
  ELSE rule("selectorLoop", ps, <<left>>)

\* the end of one turn of the loop of callArgs
callArgsEnd(ps, list) ==
  IF ptok(ps) = "COMMA" THEN rule("callArgsLoop", next(ps), <<list>>) ELSE Ok(ps, list)

callArgsLoop(ps, list) ==
  LET arg == rule("expr", ps, <<>>)
      value == rule("expr", next(arg.p), <<>>)
  IN IF arg.err # <<>> THEN arg
     ELSE IF ptok(arg.p) = "EQ"
     THEN IF value.err # <<>> THEN value
          ELSE IF arg.node.kind = "Id"
          THEN callArgsEnd(value.p, Append(list, KwArg(0, arg.node.name, value.node)))
          ELSE parser_error(value.p, "non-identifier in left side of keyword argument")
     ELSE IF ptok(arg.p) = "DOTDOTDOT"
     THEN callArgsEnd(next(arg.p), Append(list, VarArg(0, arg.node)))
     ELSE callArgsEnd(arg.p, Append(list, arg.node))

parser_callArgs(ps) ==
  IF ptok(ps) = "RPAREN" THEN Ok(ps, <<>>) ELSE rule("callArgsLoop", ps, << <<>> >>)

\* the loop of callExpr
callLoop(ps, left) ==
  IF ptok(ps) # "LPAREN" THEN Ok(ps, left)
  ELSE LET args == parser_callArgs(next(ps))
       IN IF args.err # <<>> THEN args
          ELSE IF ptok(args.p) # "RPAREN" THEN errorExpected(args.p, "closing ')'")
          ELSE rule("callLoop", next(args.p), <<CallExpr(0, left, args.node)>>)

callExpr(ps) ==
  LET left == selectorOrSubscriptExpr(ps, NilNode)
      call == rule("callLoop", left.p, <<left.node>>)
  IN IF left.err # <<>> THEN left
     ELSE IF call.err # <<>> THEN call
     ELSE selectorOrSubscriptExpr(call.p, call.node)

unaryExpr(ps) ==
  IF IsUnaryOp(ptok(ps))
  THEN LET op == ptok(ps)
           right == IF op = "NOT" THEN rule("expr", next(ps), <<>>)
                    ELSE rule("callExpr", next(ps), <<>>)
       IN IF right.err # <<>> THEN right
          ELSE Ok(right.p, UnaryExpr(0, op, right.node))
  ELSE rule("callExpr", ps, <<>>)

\* a variant of climbs that lets an operator of equal precedence bind first
\* whatever its associativity
climbs_equalBinds(tk, tok, opPrecedence) ==
  IsBinaryOp(tk, tok) /\ Precedence(tk, tok) >= opPrecedence

\* the stay of the inner loop of binaryExpr: the operator ahead binds first
climbs(tk, tok, opPrecedence) ==
  \/ IsBinaryOp(tk, tok) /\ Precedence(tk, tok) > opPrecedence
  \/ RightAssociative(tk, tok) /\ Precedence(tk, tok) >= opPrecedence

\* the inner loop of binaryExpr
binaryRight(ps, right, opPrecedence) ==
  IF climbs(ps.tk, ptok(ps), opPrecedence)
  THEN LET r == rule("binaryExpr", ps, <<right, Precedence(ps.tk, ptok(ps))>>)
       IN IF r.err # <<>> THEN r ELSE rule("binaryRight", r.p, <<r.node, opPrecedence>>)
  ELSE Ok(ps, right)

binaryExpr(ps, left, minPrecedence) ==
  IF ~(IsBinaryOp(ps.tk, ptok(ps)) /\ Precedence(ps.tk, ptok(ps)) >= minPrecedence)
  THEN Ok(ps, left)
  ELSE LET op == ptok(ps)
           opPrecedence == Precedence(ps.tk, op)
           p1 == next([ps EXCEPT !.ign = FALSE])
           right == rule("unaryExpr", [p1 EXCEPT !.ign = ps.ign], <<>>)
           climbed == rule("binaryRight", right.p, <<right.node, opPrecedence>>)
       IN IF ptok(p1) \in {"NEWLINE", "EOS"}
          THEN parser_error(p1, "expression not terminated")
          ELSE IF right.err # <<>> THEN right
          ELSE IF climbed.err # <<>> THEN climbed
          ELSE rule("binaryExpr", climbed.p, <<BinaryExpr(0, op, left, climbed.node), minPrecedence>>)

expr(ps) ==
  LET left == rule("unaryExpr", ps, <<>>)
  IN IF left.err # <<>> THEN left ELSE rule("binaryExpr", left.p, <<left.node, 0>>)

declaration(ps) ==
  LET isConst == ptok(ps) = "CONST"
      left == idList(next(ps))
      right == exprList(next(left.p), FALSE)
  IN IF ptok(left.p) # "EQ" THEN Ok(left.p, Declaration(0, isConst, left.node, <<>>))
     ELSE IF right.err # <<>> THEN right
     ELSE Ok(right.p, Declaration(0, isConst, left.node, right.node))

assignment(ps) ==
  LET left == exprList(ps, FALSE)
      op == ptok(left.p)
      right == exprList(next(left.p), FALSE)
  IN IF left.err # <<>> THEN left
     ELSE IF ~IsAssignOp(op)
     THEN IF Len(left.node) > 1 THEN parser_error(left.p, "illegal expression")
          ELSE Ok(left.p, left.node[1])
     ELSE IF op = "COLONEQ" /\ ~checkIdList(left.node)
     THEN parser_error(left.p, "non-identifier at left side of ':='")
     ELSE IF right.err # <<>> THEN right
     ELSE Ok(right.p, Assignment(0, op, left.node, right.node))

\* defer p.accept(token.SEMICOLON) runs on every return
stmt(ps) ==
  LET r == IF ptok(ps) \in {"CONST", "VAR"} THEN declaration(ps) ELSE assignment(ps)
  IN [r EXCEPT !.p = accept(r.p, "SEMICOLON")]

\* the statement loop of block and of program: it ends at a token of closers
stmtLoop(ps, closers, nodes) ==
  IF ptok(ps) \in closers THEN Ok(ps, nodes)
  ELSE LET s == stmt(ps)
       IN IF s.err # <<>> THEN s ELSE rule("stmtLoop", s.p, <<closers, Append(nodes, s.node)>>)

block(ps) ==
  IF ptok(ps) # "LBRACE" THEN errorExpected(ps, "'{'")
  ELSE LET l == rule("stmtLoop", next(ps), <<{"RBRACE", "EOS"}, <<>>>>)
       IN IF l.err # <<>> THEN l
          ELSE IF ptok(l.p) # "RBRACE" THEN errorExpected(l.p, "closing '}'")
          ELSE Ok(next(l.p), Block(0, l.node))

\* the call of the production name on the parser ps
rule(name, ps, a) ==
  CASE name = "idListLoop" -> idListLoop(ps, a[1])
    [] name = "exprListLoop" -> exprListLoop(ps, a[1], a[2])
    [] name = "objectFieldListLoop" -> objectFieldListLoop(ps, a[1])
    [] name = "array" -> array(ps)
    [] name = "object" -> object(ps)
    [] name = "functionArgsLoop" -> functionArgsLoop(ps, a[1], a[2], a[3])
    [] name = "functionBody" -> functionBody(ps)
    [] name = "function" -> function(ps)
    [] name = "primaryExpr" -> primaryExpr(ps)
    [] name = "subscriptExpr" -> subscriptExpr(ps, a[1])
    [] name = "selectorLoop" -> selectorLoop(ps, a[1])
    [] name = "callArgsLoop" -> callArgsLoop(ps, a[1])
    [] name = "callLoop" -> callLoop(ps, a[1])
    [] name = "callExpr" -> callExpr(ps)
    [] name = "unaryExpr" -> unaryExpr(ps)
    [] name = "binaryExpr" -> binaryExpr(ps, a[1], a[2])
    [] name = "binaryRight" -> binaryRight(ps, a[1], a[2])
    [] name = "expr" -> expr(ps)
    [] name = "stmt" -> stmt(ps)
    [] name = "stmtLoop" -> stmtLoop(ps, a[1], a[2])
    [] name = "block" -> block(ps)

program(ps) ==
  LET l == rule("stmtLoop", next(ps), <<{"EOS"}, <<>>>>)
  IN IF l.err # <<>> THEN l ELSE Ok(l.p, Block(0, l.node))

Parse(source, tk) == program(makeParser(source, tk))

(* ------------------------------- sources ------------------------------- *)

\* the token sequences of items, a COMMA between two of them
RECURSIVE Sep(_)
Sep(items) ==
  IF items = <<>> THEN <<>>
  ELSE IF Len(items) = 1 THEN items[1]
  ELSE items[1] \o <<Token("COMMA", "")>> \o Sep(Tail(items))

Comma(trailing) == IF trailing THEN <<Token("COMMA", "")>> ELSE <<>>

\* the literal of the k-th identifier and of the k-th number of a source
Name(k) == <<"a", "b", "c", "d", "e", "g">>[k]
Digit(k) == <<"1", "2", "3", "4", "5", "6">>[k]

IntElems(n) == Sep([j \in 1 .. n |-> <<Token("INT", Digit(j))>>])
IdElems(n) == Sep([j \in 1 .. n |-> <<Token("ID", Name(j))>>])
FieldElems(n) ==
  Sep([j \in 1 .. n |-> <<Token("ID", Name(j)), Token("COLON", ""), Token("INT", Digit(j))>>])

ListForms == 1 .. 6

\* a program of one statement that holds a list of n elements, with a comma
\* after the last element or not:
\*   1  x = [1, 2,]            2  x = {a: 1, b: 2,}     3  f(1, 2,)
\*   4  func f(a, b,) { }      5  var a, b, = 1, 2      6  var a, b = 1, 2,
ListSrc(form, n, trailing) ==
  CASE form = 1 -> <<Token("ID", "x"), Token("EQ", ""), Token("LBRACK", "")>>
                   \o IntElems(n) \o Comma(trailing) \o <<Token("RBRACK", "")>>
    [] form = 2 -> <<Token("ID", "x"), Token("EQ", ""), Token("LBRACE", "")>>
                   \o FieldElems(n) \o Comma(trailing) \o <<Token("RBRACE", "")>>
    [] form = 3 -> <<Token("ID", "f"), Token("LPAREN", "")>>
                   \o IntElems(n) \o Comma(trailing) \o <<Token("RPAREN", "")>>
    [] form = 4 -> <<Token("FUNC", ""), Token("ID", "f"), Token("LPAREN", "")>>
                   \o IdElems(n) \o Comma(trailing)
                   \o <<Token("RPAREN", ""), Token("LBRACE", ""), Token("RBRACE", "")>>
    [] form = 5 -> <<Token("VAR", "")>> \o IdElems(n) \o Comma(trailing)
                   \o <<Token("EQ", "")>> \o IntElems(n)
    [] form = 6 -> <<Token("VAR", "")>> \o IdElems(n) \o <<Token("EQ", "")>>
                   \o IntElems(n) \o Comma(trailing)

\* an operand of an expression: the identifier k, negated or not
Operand(k, neg) ==
  IF neg THEN <<Token("MINUS", ""), Token("ID", Name(k))>> ELSE <<Token("ID", Name(k))>>

\* the source is operands with binary operators between them
ExprSrc(src) ==
  /\ src # <<>>
  /\ \A j \in 1 .. Len(src) : src[j].tok \in BinOps \cup {"ID", "MINUS"}

IsOperator(t) == t.tok \in BinOps
IsIdToken(t) == t.tok = "ID"

\* the binary operators of an expression source, in order
Operators(src) == SelectSeq(src, IsOperator)

\* arguments of a generated parameter list or call
MaxArgs == 3

\* the kinds of an argument: positional, keyword, variadic
ArgKinds == {"pos", "kw", "var"}

\* the k-th argument of a list:  a   a = 1   a...
ArgToks(kind, k) ==
  CASE kind = "pos" -> <<Token("ID", Name(k))>>
    [] kind = "kw" -> <<Token("ID", Name(k)), Token("EQ", ""), Token("INT", Digit(k))>>
    [] kind = "var" -> <<Token("ID", Name(k)), Token("DOTDOTDOT", "")>>

ArgLists == UNION {[1 .. n -> ArgKinds] : n \in 1 .. MaxArgs}

\* a program of one statement whose arguments have the kinds given: the call
\* f(...)  or the function  func f(...) { }
ArgsSrc(call, kinds) ==
  LET args == Sep([j \in 1 .. Len(kinds) |-> ArgToks(kinds[j], j)])
  IN IF call
     THEN <<Token("ID", "f"), Token("LPAREN", "")>> \o args \o <<Token("RPAREN", "")>>
     ELSE <<Token("FUNC", ""), Token("ID", "f"), Token("LPAREN", "")>> \o args
          \o <<Token("RPAREN", ""), Token("LBRACE", ""), Token("RBRACE", "")>>

(* -------------------------- the parse machine -------------------------- *)

\* prog is the source handed to Parse, as tokens; once pos is 1, pre is the
\* token package the parser was built with and c is what Parse returned.

InitParse ==
  /\ prog = <<>>
  /\ pos = 0
  /\ pre = [prec |-> [op \in BinOps |-> 1], right |-> {}]
  /\ c = Ok(makeParser(<<>>, pre), NilNode)

SrcList ==
  /\ pos = 0 /\ prog = <<>>
  /\ \E form \in ListForms, n \in 1 .. MaxElems, trailing \in BOOLEAN :
       prog' = ListSrc(form, n, trailing)
  /\ UNCHANGED <<c, pos, pre>>

SrcOperand ==
  /\ pos = 0 /\ prog = <<>>
  /\ \E neg \in BOOLEAN : prog' = Operand(1, neg)
  /\ UNCHANGED <<c, pos, pre>>

SrcOperator ==
  /\ pos = 0 /\ ExprSrc(prog)
  /\ Len(Operators(prog)) < MaxOperators
  /\ \E op \in BinOps, neg \in BOOLEAN :
       prog' = prog \o <<Token(op, "")>> \o Operand(Len(Operators(prog)) + 2, neg)
  /\ UNCHANGED <<c, pos, pre>>

SrcArgs ==
  /\ pos = 0 /\ prog = <<>>
  /\ \E call \in BOOLEAN, kinds \in ArgLists : prog' = ArgsSrc(call, kinds)
  /\ UNCHANGED <<c, pos, pre>>

ParseSrc ==
  /\ pos = 0 /\ prog # <<>>
  /\ \E tk \in TokenTables :
       /\ pre' = tk
       /\ c' = Parse(prog, tk)
  /\ pos' = 1
  /\ UNCHANGED prog

NextParse ==
  \/ SrcList
  \/ SrcOperand
  \/ SrcOperator
  \/ SrcArgs
  \/ ParseSrc

SpecParse == InitParse /\ [][NextParse]_vars

\* Parse has returned
Parsed == pos = 1

\* the source is the list form with n elements and a comma after the last
TrailingComma(form) == \E n \in 1 .. MaxElems : prog = ListSrc(form, n, TRUE)

\* C12: a single trailing comma before the closing delimiter is accepted
\* without a parse error in array literal elements, object literal fields,
\* call arguments, function parameter lists and declaration lists.
C12_TrailingCommaAccepted ==
  \A form \in 1 .. 5 : (Parsed /\ TrailingComma(form)) => c.err = <<>>

\* the operands of an expression source, in order, as unaryExpr gives them
RECURSIVE OperandsFrom(_, _)
OperandsFrom(src, j) ==
  IF j > Len(src) THEN <<>>
  ELSE IF src[j].tok = "MINUS"
  THEN <<UnaryExpr(0, "MINUS", Id(0, src[j + 1].lit))>> \o OperandsFrom(src, j + 2)
  ELSE IF src[j].tok = "ID" THEN <<Id(0, src[j].lit)>> \o OperandsFrom(src, j + 1)
  ELSE OperandsFrom(src, j + 1)

Min(S) == CHOOSE x \in S : \A y \in S : x <= y
Max(S) == CHOOSE x \in S : \A y \in S : x >= y

\* The tree precedence and associativity define over operands lo .. hi, the
\* operator k standing between operands k and k + 1: the operator that
\* groups last is one of lowest precedence, the rightmost of them when they
\* group to the left and the leftmost when they are right-associative.
RECURSIVE Grouping(_, _, _, _, _)
Grouping(tk, operands, ops, lo, hi) ==
  IF lo = hi THEN operands[lo]
  ELSE LET low == Min({tk.prec[ops[k].tok] : k \in lo .. hi - 1})
           lowest == {k \in lo .. hi - 1 : tk.prec[ops[k].tok] = low}
           root == IF low \in tk.right THEN Min(lowest) ELSE Max(lowest)
       IN BinaryExpr(0, ops[root].tok, Grouping(tk, operands, ops, lo, root),
                     Grouping(tk, operands, ops, root + 1, hi))

\* the tokens of an expression tree, left to right
RECURSIVE Flatten(_)
Flatten(node) ==
  CASE node.kind = "BinaryExpr" ->
         Flatten(node.left) \o <<Token(node.op, "")>> \o Flatten(node.right)
    [] node.kind = "UnaryExpr" -> <<Token(node.op, "")>> \o Flatten(node.right)
    [] node.kind = "Id" -> <<Token("ID", node.name)>>

\* C20: for operands separated by binary operators, expr() builds the tree
\* that precedence and associativity define (higher precedence groups first,
\* equal precedence groups to the left, or to the right when right-
\* associative), and every token is consumed exactly once, in order.
C20_PrecedenceClimbing ==
  (Parsed /\ ExprSrc(prog)) =>
    /\ c.err = <<>>
    /\ c.p.i = Len(prog) + 1
    /\ c.node.kind = "Block" /\ Len(c.node.nodes) = 1
    /\ c.node.nodes[1] =
         Grouping(pre, OperandsFrom(prog, 1), Operators(prog), 1,
                  Len(Operators(prog)) + 1)
    /\ Flatten(c.node.nodes[1]) = prog

\* an expression of three operators has been parsed, the second of higher
\* precedence than the first, the third the equal of the second and both
\* right-associative
C20_Witness ==
  /\ Parsed /\ ExprSrc(prog) /\ c.err = <<>>
  /\ Len(Operators(prog)) = 3
  /\ pre.prec[Operators(prog)[2].tok] > pre.prec[Operators(prog)[1].tok]
  /\ pre.prec[Operators(prog)[3].tok] = pre.prec[Operators(prog)[2].tok]
  /\ pre.prec[Operators(prog)[2].tok] \in pre.right
  /\ c.node.nodes[1].right.kind = "BinaryExpr"
  /\ c.node.nodes[1].right.right.kind = "BinaryExpr"

(* ----------------------- the expression machine ------------------------ *)

\* The compile machine over programs whose statements hold the expression
\* forms of the visitors: c, prog, pos and pre are as in the compile machine.

FoldIds == 1 .. 9

\* constant expressions, on line l
ExprFold(k, l) ==
  CASE k = 1 -> BinaryExpr(l, "T_PLUS", NumberLit(l, 1), NumberLit(l, 2))
    [] k = 2 -> BinaryExpr(l, "T_TIMES", Id(l, "PI"), NumberLit(l, 2))
    [] k = 3 -> BinaryExpr(l, "T_LT", NumberLit(l, 1), NumberLit(l, 2))
    [] k = 4 -> BinaryExpr(l, "T_TIMES",
                           BinaryExpr(l, "T_PLUS", NumberLit(l, 1), NumberLit(l, 2)),
                           NumberLit(l, 3))
    [] k = 5 -> BinaryExpr(l, "T_PLUS", StringLit(l, "a"), StringLit(l, "b"))
    [] k = 6 -> BinaryExpr(l, "T_AMPAMP", BoolLit(l, TRUE), BoolLit(l, FALSE))
    [] k = 7 -> BinaryExpr(l, "T_TIMESTIMES", NumberLit(l, 2), NumberLit(l, 3))
    [] k = 8 -> BinaryExpr(l, "T_PLUS", UnaryExpr(l, "T_MINUS", NumberLit(l, 1)),
                           NumberLit(l, 2))
    [] k = 9 -> BinaryExpr(l, "T_MINUS", Id(l, "PI"), Id(l, "PI"))

\* const PI = 3
ExprConst == Stmt(Declaration(Line, TRUE, <<Id(Line, "PI")>>, <<NumberLit(Line, 3)>>))

\* var x = E  or the statement  E,  for a constant expression E
ExprFoldStmt ==
  \E k \in FoldIds, n \in {"x", "y"} :
    \/ Stmt(Declaration(Line, FALSE, <<Id(Line, n)>>, <<ExprFold(k, Line)>>))
    \/ n = "x" /\ Stmt(ExprFold(k, Line))

\* elements of the longest array literal
MaxArrayLen == 21

\* [1, 2, ..., n]  or, with a name, [name, 2, ..., n]
ArrayLit(l, n, first) ==
  Array(l, [j \in 1 .. n |-> IF j = 1 /\ first # "" THEN Id(l, first) ELSE NumberLit(l, j)])

\* var x = 1
ExprLocal == \E n \in {"x", "y"} : Stmt(Declaration(Line, FALSE, <<Id(Line, n)>>, <<NumberLit(Line, 1)>>))

\* var a = [ ... ]  or the statement  [ ... ], the one array literal of the
\* program
ExprArray ==
  \E n \in 0 .. MaxArrayLen, first \in {"", "x"}, declared \in BOOLEAN :
    /\ first = "x" => n >= 1
    /\ \A j \in 1 .. Len(prog) : prog[j].kind = "Declaration" /\ prog[j].rhs[1].kind # "Array"
    /\ IF declared
       THEN Stmt(Declaration(Line, FALSE, <<Id(Line, "a")>>, <<ArrayLit(Line, n, first)>>))
       ELSE Stmt(ArrayLit(Line, n, first))

\* the compile machine over programs of local declarations and one array
\* literal
NextArray ==
  \/ ExprLocal
  \/ ExprArray
  \/ VisitStmt

SpecArray == Init /\ [][NextArray]_vars

\* f(1, ..., k)
CallOf(l, k) == CallExpr(l, Id(l, "f"), [j \in 1 .. k |-> NumberLit(l, j)])

\* var x, y, z = f(1, ..., k)  with n names, or the statement  f(1, ..., k)
ExprCall ==
  \E n \in 0 .. 3, k \in 0 .. 2 :
    IF n = 0 THEN Stmt(CallOf(Line, k))
    ELSE Stmt(Declaration(Line, FALSE, Ids(Line, SubSeq(<<"u", "v", "w">>, 1, n)),
                          <<CallOf(Line, k)>>))

\* the operands of the short-circuit forms: x (a local once declared), the
\* global g, the constant 1, the call f(); and y or the constant 2
LeftOperand(l, v) ==
  CASE v = 1 -> Id(l, "x")
    [] v = 2 -> Id(l, "g")
    [] v = 3 -> NumberLit(l, 1)
    [] v = 4 -> CallExpr(l, Id(l, "f"), <<>>)

RightOperand(l, v) == IF v = 1 THEN Id(l, "y") ELSE NumberLit(l, 2)

\* left && right  and  left || right
Logic(l, op, lv, rv) == BinaryExpr(l, op, LeftOperand(l, lv), RightOperand(l, rv))

\* var z = left && right, var z = left || right
ExprLogic ==
  \E op \in {"T_AMPAMP", "T_PIPEPIPE"}, lv \in 1 .. 4, rv \in 1 .. 2 :
    Stmt(Declaration(Line, FALSE, <<Id(Line, "z")>>, <<Logic(Line, op, lv, rv)>>))

\* the operands that leave their value in rega:  f(),  x && y,  x++  and
\* x ? 1 : 2
ValueOperand(l, v) ==
  CASE v = 1 -> CallExpr(l, Id(l, "f"), <<>>)
    [] v = 2 -> Logic(l, "T_AMPAMP", 1, 1)
    [] v = 3 -> PostfixExpr(l, "T_PLUSPLUS", Id(l, "x"))
    [] v = 4 -> TernaryExpr(l, Id(l, "x"), NumberLit(l, 1), NumberLit(l, 2))

\* var z = operand + 1
ExprOperand ==
  \E v \in 1 .. 4 :
    Stmt(Declaration(Line, FALSE, <<Id(Line, "z")>>,
                     <<BinaryExpr(Line, "T_PLUS", ValueOperand(Line, v), NumberLit(Line, 1))>>))

NextExpr ==
  \/ ExprConst
  \/ ExprFoldStmt
  \/ ExprLocal
  \/ ExprCall
  \/ ExprLogic
  \/ ExprOperand
  \/ VisitStmt

SpecExpr == Init /\ [][NextExpr]_vars

\* what the constant expression k is worth, PI being 3
FoldValue(k) ==
  CASE k = 1 -> Number(3)
    [] k = 2 -> Number(6)
    [] k = 3 -> Bool(TRUE)
    [] k = 4 -> Number(9)
    [] k = 5 -> String("ab")
    [] k = 6 -> Bool(FALSE)
    [] k = 7 -> Number(8)
    [] k = 8 -> Number(1)
    [] k = 9 -> Number(0)

\* the last statement is  var n = E  or  E  with E the constant expression k,
\* and constFold succeeds on E
FoldedLast(k) ==
  /\ Visited
  /\ \/ Last = ExprFold(k, Last.line)
     \/ /\ Last.kind = "Declaration" /\ ~Last.isConst
        /\ Len(Last.lhs) = 1
        /\ Last.rhs = <<ExprFold(k, Last.line)>>
  /\ constFold(pre, ExprFold(k, Last.line)).ok

\* the value is in the constant pool
InPool(consts, value) == \E j \in 1 .. Len(consts) : ValueEq(consts[j], value)

\* C13: visiting a BinaryExpr on which constFold succeeds, with a destination
\* register, emits exactly one instruction, LOADCONST dest,K with K the pool
\* index of the folded value, and adds nothing to the constant pool but the
\* folded value.
C13_FoldedLoad ==
  \A k \in FoldIds :
    FoldedLast(k) =>
      LET before == pre.protos[1].Consts
          after == c.protos[1].Consts
      IN /\ Len(NewCode) = 1
         /\ NewCode[1].op = "OP_LOADCONST" /\ NewCode[1].a = StartReg
         /\ NewCode[1].b \in 0 .. Len(after) - 1
         /\ ValueEq(after[NewCode[1].b + 1], FoldValue(k))
         /\ after = IF InPool(before, FoldValue(k)) THEN before
                    ELSE Append(before, FoldValue(k))

\* var x = PI * 2 has been compiled after const PI = 3, which left no code
C13_Witness ==
  /\ FoldedLast(2) /\ pos = 2
  /\ pre.protos[1].Code = <<>>
  /\ c.protos[1].Consts = <<Number(6)>>

\* the array literal of the last statement, if it is one or declares one
LastArray == IF Last.kind = "Array" THEN Last ELSE Last.rhs[1]

ArrayCompiled ==
  /\ Visited
  /\ \/ Last.kind = "Array"
     \/ /\ Last.kind = "Declaration" /\ Len(Last.rhs) = 1
        /\ Last.rhs[1].kind = "Array"

\* the indices in NewCode of the APPEND instructions, and of the others
\* after the first instruction
Appends == {q \in 1 .. Len(NewCode) : NewCode[q].op = "OP_APPEND"}
Loads == {q \in 2 .. Len(NewCode) : NewCode[q].op # "OP_APPEND"}

RECURSIVE SumB(_)
SumB(S) == IF S = {} THEN 0 ELSE LET q == Min(S) IN NewCode[q].b + SumB(S \ {q})

\* instruction q evaluates element j of the literal into register reg
Evaluates(q, j, reg) ==
  LET el == LastArray.elements[j]
  IN /\ NewCode[q].a = reg
     /\ IF el.kind = "Number"
        THEN /\ NewCode[q].op = "OP_LOADCONST"
             /\ NewCode[q].b \in 0 .. Len(c.protos[1].Consts) - 1
             /\ ValueEq(c.protos[1].Consts[NewCode[q].b + 1], Number(el.num))
        ELSE NewCode[q].op \in {"OP_MOVE", "OP_LOADGLOBAL"}

\* C14: an array literal of n elements compiles to one ARRAY, then batches
\* whose APPEND has B in 1 .. 10; the B sum to n; every element is evaluated
\* once, in source order, into registers reg+1 .. reg+B of its batch; the
\* empty literal has no APPEND.
C14_ArrayBatches ==
  ArrayCompiled =>
    LET n == Len(LastArray.elements)
        reg == StartReg
    IN /\ NewCode[1].op = "OP_ARRAY" /\ NewCode[1].a = reg
       /\ \A q \in 2 .. Len(NewCode) : NewCode[q].op # "OP_ARRAY"
       /\ \A q \in Appends : NewCode[q].a = reg /\ NewCode[q].b \in 1 .. kArrayMaxRegisters
       /\ SumB(Appends) = n
       /\ Cardinality(Loads) = n
       /\ n = 0 => Appends = {}
       /\ \A q \in Appends :
            LET B == NewCode[q].b
                done == SumB({r \in Appends : r < q})
            IN \A i \in 1 .. B :
                 /\ q - B - 1 + i \in Loads
                 /\ Evaluates(q - B - 1 + i, done + i, reg + i)

\* a literal of more than two batches has been compiled, its last batch
\* shorter than the others
C14_Witness ==
  /\ ArrayCompiled
  /\ Len(LastArray.elements) > 2 * kArrayMaxRegisters
  /\ Cardinality(Appends) = 3
  /\ StartReg > 0

(* ------------------------ the constant-pool machine -------------------- *)

\* addConst, one call at a time, on the root prototype.  c is the compiler,
\* pre the compiler before the last call, prog the value of that call and the
\* index it returned, pos the number of calls.  The pool starts empty or as
\* the calls addConst(1), ..., addConst(funcMaxConsts - 3) leave it.

PoolOf(k) == [NewCompiler EXCEPT !.protos[1].Consts = [j \in 1 .. k |-> Number(j)]]

InitConst ==
  /\ \E k \in {0, funcMaxConsts - 3} :
       /\ c = PoolOf(k)
       /\ pre = PoolOf(k)
  /\ prog = <<>>
  /\ pos = 0

\* the values handed to addConst: a number the pool does not hold, the first
\* number, a string, a bool, nil, and the NaN that folding 0 / 0 gives
ConstValues ==
  {Number(Len(c.protos[1].Consts) + 1000), Number(1), String("s"), Bool(TRUE),
   NilValue, NaN}

ConstAdd ==
  /\ c.status = "run"
  /\ pos < MaxOps
  /\ \E value \in ConstValues :
       /\ c' = addConst(c, value)
       /\ prog' = <<[value |-> value, index |-> constIndex(c, value)]>>
  /\ pos' = pos + 1
  /\ pre' = c

NextConst == ConstAdd

SpecConst == InitConst /\ [][NextConst]_vars

\* the pool, and the pool before the last call
Pool == c.protos[1].Consts
PoolBefore == pre.protos[1].Consts

\* addConst has been called and has returned
Added == pos >= 1 /\ c.status = "run"

\* the index at which the pool held the value before the last call
HeldAt(value) == {j \in 1 .. Len(PoolBefore) : PoolBefore[j] = value}

\* no two entries of the pool are equal in type and value (ValueEq): among
\* the entries of one type that are not NaN there are as many values as
\* entries
NoTwoEqual ==
  \A t \in {"number", "string", "bool", "nil"} :
    LET entries == {j \in 1 .. Len(Pool) : Pool[j].t = t /\ ~IsNaN(Pool[j])}
    IN Cardinality({Pool[j].v : j \in entries}) = Cardinality(entries)

ReturnsIndex ==
  Added => /\ prog[1].index \in 0 .. Len(Pool) - 1
           /\ Pool[prog[1].index + 1] = prog[1].value

WithinCapacity ==
  /\ Len(Pool) <= funcMaxConsts
  /\ (pos >= 1 /\ c.status = "error") =>
       /\ Len(PoolBefore) = funcMaxConsts
       /\ Pool = PoolBefore
       /\ c.err = "too many constants"

\* C15, as the spec states it: the pool holds no two entries equal in type
\* and value; addConst(v) returns an index i with consts[i] = v; a repeated
\* addConst of a value already present returns the same index and leaves the
\* pool unchanged; the pool never grows beyond its capacity, the insertion
\* beyond it raising 'too many constants'.
C15_ConstPool ==
  /\ NoTwoEqual
  /\ ReturnsIndex
  /\ WithinCapacity
  /\ (pos >= 1 /\ HeldAt(prog[1].value) # {}) =>
       /\ c.status = "run"
       /\ Pool = PoolBefore
       /\ prog[1].index + 1 \in HeldAt(prog[1].value)

\* C15, amended: as stated for every value but NaN; NaN is equal to no
\* entry, so each addConst(NaN) that finds room appends a new entry.
C15_ConstPoolButNaN ==
  /\ NoTwoEqual
  /\ ReturnsIndex
  /\ WithinCapacity
  /\ (pos >= 1 /\ HeldAt(prog[1].value) # {} /\ ~IsNaN(prog[1].value)) =>
       /\ c.status = "run"
       /\ Pool = PoolBefore
       /\ prog[1].index + 1 \in HeldAt(prog[1].value)
  /\ (Added /\ IsNaN(prog[1].value)) => Pool = Append(PoolBefore, NaN)

\* a value already present has been added again to a full pool, and before
\* that a NaN was added to a pool that held one
C15_Witness ==
  /\ Added
  /\ Len(Pool) = funcMaxConsts
  /\ HeldAt(prog[1].value) # {} /\ ~IsNaN(prog[1].value)
  /\ Cardinality({j \in 1 .. Len(Pool) : IsNaN(Pool[j])}) = 2

\* the last statement is a call of k arguments asked for n results: the
\* statement  f(1, ..., k)  or  var ... = f(1, ..., k)  with n names
CallCompiled(n, k) ==
  /\ Visited
  /\ \/ n = 1 /\ Last = CallOf(Last.line, k)
     \/ /\ Last.kind = "Declaration" /\ Len(Last.lhs) = n
        /\ Last.rhs = <<CallOf(Last.line, k)>>

\* C16: a call compiled with the result range startReg .. endReg has its
\* callee in startReg, its argument i in startReg + i + 1 and ends with
\* CALL startReg, endReg - startReg + 1, argCount, also when endReg > startReg.
C16_CallLayout ==
  \A n \in 1 .. 3, k \in 0 .. 2 :
    CallCompiled(n, k) =>
      LET startReg == StartReg
      IN /\ Len(NewCode) = k + 2
         /\ NewCode[1].op = "OP_LOADGLOBAL" /\ NewCode[1].a = startReg
         /\ \A i \in 0 .. k - 1 :
              /\ NewCode[i + 2].op = "OP_LOADCONST"
              /\ NewCode[i + 2].a = startReg + i + 1
         /\ NewWords[k + 2] = <<"OP_CALL", startReg, n, k>>

\* the last statement is  var z = left && right  or  var z = left || right
LogicCompiled(lv, rv) ==
  /\ Visited
  /\ Last.kind = "Declaration" /\ ~Last.isConst
  /\ \E op \in {"T_AMPAMP", "T_PIPEPIPE"} : Last.rhs = <<Logic(Last.line, op, lv, rv)>>

\* the indices in NewCode of the conditional jumps
CondJumps == {q \in 1 .. Len(NewCode) : NewCode[q].op \in {"OP_JMPFALSE", "OP_JMPTRUE"}}

\* C17: for a non-foldable left && right or left || right the register the
\* JMPFALSE / JMPTRUE tests is the register right is compiled into, also
\* when left is a local variable or a constant.
C17_ShortCircuitRegister ==
  \A lv \in 1 .. 4, rv \in 1 .. 2 :
    LogicCompiled(lv, rv) =>
      /\ Cardinality(CondJumps) = 1
      /\ \A q \in CondJumps :
           /\ q + 1 = Len(NewCode)
           /\ NewCode[q + 1].a = StartReg
           /\ NewCode[q].a = NewCode[q + 1].a

\* the last statement is  var z = operand + 1
OperandCompiled(v) ==
  /\ Visited
  /\ Last.kind = "Declaration" /\ ~Last.isConst
  /\ Last.rhs = <<BinaryExpr(Last.line, "T_PLUS", ValueOperand(Last.line, v),
                             NumberLit(Last.line, 1))>>

\* C18: an expression visited with propagate true leaves in regb the place
\* of its value, also a CallExpr, a short-circuit BinaryExpr, a PostfixExpr
\* and a TernaryExpr visited as the left operand of a BinaryExpr, whose regb
\* starts at 0: the ADD of  operand + 1  reads the operand where its value
\* is, in rega.
C18_OperandLocation ==
  \A v \in 1 .. 4 :
    OperandCompiled(v) =>
      LET add == NewCode[Len(NewCode)]
      IN /\ add.op = "OP_ADD" /\ add.a = StartReg
         /\ add.b = StartReg
         /\ IsK(add.c, 1)

\* the last statement is a for loop whose body is  continue
ContinueCompiled ==
  /\ Visited
  /\ Last.kind = "ForStmt"
  /\ Last.body = ForBody(Last.line, 2)

\* the code index of the JMP that continue emitted: the first JMP of the loop
ContinueIndex ==
  Len(pre.protos[1].Code) + Min({q \in 1 .. Len(NewCode) : NewCode[q].op = "OP_JMP"}) - 1

\* the start of the Loop block that leaveBlock left last
LoopStart == c.left[Len(c.left)].block.start

\* C19: with target = index of the jump + 1 + offset, the JMP of a continue
\* in a for loop has the loop block's start index as its target.
C19_ContinueTarget ==
  ContinueCompiled =>
    ContinueIndex + 1 + CodeAt(1, ContinueIndex).b = LoopStart

\* a positional argument comes after a keyword or a variadic one
PositionalAfter(kinds) ==
  \E i, j \in 1 .. Len(kinds) : i < j /\ kinds[i] \in {"kw", "var"} /\ kinds[j] = "pos"

\* a variadic argument is not the last of the list
VariadicNotLast(kinds) == \E i \in 1 .. Len(kinds) - 1 : kinds[i] = "var"

\* Parse has returned for the list of these kinds
ArgsParsed(call, kinds) == Parsed /\ prog = ArgsSrc(call, kinds)

\* C21: a positional argument after a keyword or variadic argument is a parse
\* error in a parameter list and in a call's argument list, and a parameter
\* list with a variadic parameter that is not last is a parse error.
C21_ArgumentOrder ==
  \A call \in BOOLEAN, kinds \in ArgLists :
    (ArgsParsed(call, kinds) /\ (PositionalAfter(kinds) \/ (~call /\ VariadicNotLast(kinds))))
      => c.err # <<>>

\* the last statement visited is  for x := 0; x < 10; x = x + 1 { if x { type } else { } }
BranchInIfVisited(type) ==
  /\ pos >= 1 /\ pos = Len(prog)
  /\ prog[pos].kind = "ForStmt"
  /\ prog[pos].body = Block(prog[pos].line, <<IfBranch(prog[pos].line + 1, type)>>)

\* C22: a break or continue in the body of an if statement inside a for body
\* compiles without the "outside loop" error, and the JMP of such a break is
\* patched to the instruction after the loop.
C22_BranchInsideIf ==
  \A type \in {"T_BREAK", "T_CONTINUE"} :
    BranchInIfVisited(type) =>
      /\ c.status = "run"
      /\ type = "T_BREAK" =>
            \E q \in 1 .. Len(NewCode) :
              /\ NewCode[q].op = "OP_JMP"
              /\ Len(pre.protos[1].Code) + q + NewCode[q].b = Len(c.protos[1].Code)

\* Compile has returned the main prototype: every prototype is finished
Finished == c.status = "ok"

\* the jumps of prototype p land on instructions of p
JumpsInRange(p) ==
  \A i \in 0 .. Len(c.protos[p].Code) - 1 :
    CodeAt(p, i).op \in JumpOps =>
      (i + 1 + CodeAt(p, i).b) \in 0 .. Len(c.protos[p].Code) - 1

\* the last instruction of prototype p is RETURN
EndsWithReturn(p) ==
  /\ c.protos[p].Code # <<>>
  /\ CodeAt(p, Len(c.protos[p].Code) - 1).op = "OP_RETURN"

\* the final statement of the program, or of the body of its final function,
\* is  if x { } else { return x }
FinalIfElseReturn ==
  /\ prog # <<>>
  /\ prog[Len(prog)] \in {IfForm(prog[Len(prog)].line, 0, 3), FuncForm(prog[Len(prog)].line, 5)}

\* C23: in every finished prototype every jump has a target (index + 1 +
\* offset) that is an instruction of the prototype and the last instruction
\* is RETURN.
C23_JumpsStayInCode ==
  Finished => \A p \in 1 .. Len(c.protos) : JumpsInRange(p) /\ EndsWithReturn(p)

\* the last statement visited is  func f(a) { const K = 1; K = 2 }
ConstAssignCompiled == Visited /\ Last = FuncForm(Last.line, 6)

\* the code of the function compiled last
LastFuncCode == c.protos[Len(c.protos)].Code

\* C24: a const name occupies no register and no instruction that writes a
\* register is emitted for it: in  func f(a) { const K = 1; K = 2 }  no MOVE
\* writes R0, the register of the local a.
C24_ConstNoRegisterWrite ==
  ConstAssignCompiled =>
    \A i \in 1 .. Len(LastFuncCode) :
      ~(LastFuncCode[i].op = "OP_MOVE" /\ LastFuncCode[i].a = 0)

(* --------------------------- the loop machine -------------------------- *)

\* tokens of a generated source
MaxTokens == 3

\* the tokens the parser tells apart, ILLEGAL standing for every other one
LoopTokens ==
  {Token("ID", "a"), Token("INT", "1")} \cup
  {Token(t, "") : t \in {"COMMA", "EQ", "LPAREN", "RPAREN", "LBRACK", "RBRACK", "LBRACE",
                         "RBRACE", "FUNC", "VAR", "PLUS", "MINUS", "DOT", "COLON",
                         "SEMICOLON", "NEWLINE", "DOTDOTDOT", "ILLEGAL"}}

\* the token packages of the loop machine: one precedence level, left- or
\* right-associative
LoopTables ==
  {tk \in TokenTables : (\A op \in BinOps : tk.prec[op] = 1) /\ tk.right \in {{}, 1 .. MaxLevel}}

\* The loops of the parser and the call that opens an iteration of each:
\*   stmt          the statement loops of program and block: p.stmt()
\*   expr          the loops of exprList, objectFieldList and callArgs: p.expr()
\*   functionArgs  the loop of functionArgs: makeId and p.next()
\*   Parse         the whole of Parse
LoopKinds == {"stmt", "expr", "functionArgs", "Parse"}

\* the loop of this kind enters an iteration with the parser at ps
Enters(kind, ps) ==
  CASE kind = "stmt" -> ptok(ps) # "EOS"
    [] kind = "functionArgs" -> ptok(ps) = "ID"
    [] OTHER -> TRUE

\* the parser after that call, with its node and error
iteration(kind, ps) ==
  CASE kind \in {"stmt", "expr"} -> rule(kind, ps, <<>>)
    [] kind = "functionArgs" -> Ok(next(ps), Id(0, literal(ps)))
    [] kind = "Parse" -> Parse(ps.toks, ps.tk)

\* prog is the source as tokens; once pos is 1, pre is the kind of loop and
\* the parser at the start of its iteration and c what the iteration left.
InitLoop ==
  /\ prog = <<>>
  /\ pos = 0
  /\ pre = [kind |-> "none", p |-> makeParser(<<>>, CHOOSE tk \in LoopTables : TRUE)]
  /\ c = Ok(pre.p, NilNode)

SrcToken ==
  /\ pos = 0
  /\ Len(prog) < MaxTokens
  /\ \E t \in LoopTokens : prog' = Append(prog, t)
  /\ UNCHANGED <<c, pos, pre>>

\* the parser stands on the first token of the source, as every loop of the
\* parser is entered with ignoreNewlines set, and runs one iteration
Iterate ==
  /\ pos = 0
  /\ \E kind \in LoopKinds, tk \in LoopTables :
       LET ps == next(makeParser(prog, tk))
       IN /\ Enters(kind, ps)
          /\ pre' = [kind |-> kind, p |-> ps]
          /\ c' = iteration(kind, ps)
  /\ pos' = 1
  /\ UNCHANGED prog

NextLoop ==
  \/ SrcToken
  \/ Iterate

SpecLoop == InitLoop /\ [][NextLoop]_vars

\* an iteration of a loop of this kind has run
Iterated(kind) == pos = 1 /\ pre.kind = kind

\* the iteration returned an error or passed over at least one token
ConsumedOrError == c.err # <<>> \/ c.p.i > pre.p.i

\* Parse returned an error, or the Block of the program with the source read
\* to its end
AstOrError == c.err # <<>> \/ (c.node.kind = "Block" /\ ptok(c.p) = "EOS")

\* C25: every iteration of the statement loops and of the list loops of the
\* parser consumes at least one token or returns an error, and Parse returns
\* an AST or a ParseError on every token sequence.
C25_LoopsConsume ==
  /\ \A kind \in {"stmt", "expr", "functionArgs"} : Iterated(kind) => ConsumedOrError
  /\ Iterated("Parse") => AstOrError

\* an iteration of a statement loop read a whole statement without error and
\* left the parser before another statement
C25_Witness ==
  /\ Iterated("stmt")
  /\ c.err = <<>>
  /\ c.p.i > pre.p.i + 1
  /\ ptok(c.p) # "EOS"

====
